---- MODULE Spec2Model ----
(***************************************************************************)
(* A model of the py-evm transaction pipeline: VM.apply_all_transactions,  *)
(* VM.apply_transaction, the fork-layered transaction executors (Frontier, *)
(* Spurious Dragon, London) and the message application of the Frontier    *)
(* and Spurious Dragon computations, over a journaled world state.         *)
(***************************************************************************)
EXTENDS Integers, Sequences, FiniteSets, TLC

VARIABLES
    ctx,        \* execution context of the block: fork, coinbase, base fee, gas limit
    state,      \* the state object: accounts, journal of open snapshots, lock mark,
                \* and the misuses of snapshot tokens seen so far
    header,     \* the header threaded through apply_all_transactions
    pc,         \* position of the driver inside apply_all_transactions
    txIndex,    \* transaction_index of the loop of apply_all_transactions
    tx,         \* the transaction being applied
    snap,       \* snapshot token taken by apply_all_transactions for this transaction
    msg,        \* the message built by build_evm_message
    comp,       \* the computation returned by build_computation
    fin,        \* the locals of finalize_computation
    receipt,    \* the receipt made by make_receipt
    receipts,   \* the receipts list of apply_all_transactions
    hooks,      \* the transaction indexes transaction_applied_hook was called with
    calls,      \* the calls apply_transaction has made for the current transaction
    pre,        \* accounts when the current transaction began
    debited,    \* accounts when build_evm_message returned
    executed,   \* accounts when build_computation returned
    built,      \* the computation as build_computation returned it
    outcome,    \* what the code of the message did when it ran
    block,      \* the block import_block builds and finalize_block is called with
    chaindb,    \* the database: the accounts persisted, the state roots it holds
                \* and the header of the parent block
    phases,     \* the steps import_block has taken so far
    frame       \* the locals of a method that runs outside a transaction

vars == <<ctx, state, header, pc, txIndex, tx, snap, msg, comp, fin, receipt,
          receipts, hooks, calls, pre, debited, executed, built, outcome,
          block, chaindb, phases, frame>>

\* no method outside a transaction is running
NoFrame == [method |-> "none"]

-----------------------------------------------------------------------------
(* Bounds of the model *)

\* the longest transaction list handed to apply_all_transactions
MaxTxs == 2

\* the deepest nesting of child calls below the top message
MaxNesting == 1

\* the largest number of changes the body of an in_costless_state scope makes
MaxBodySteps == 2

\* the longest withdrawals list handed to apply_all_withdrawals
MaxWithdrawals == 2
\* the most bytes the code of a jump has
MaxCodeLen == 4

-----------------------------------------------------------------------------
(* Program constants *)

MAX_REFUND_QUOTIENT == 2
EIP3529_MAX_REFUND_QUOTIENT == 5
REFUND_SELFDESTRUCT == 24000
GAS_CODEDEPOSIT == 200
STACK_DEPTH_LIMIT == 1024
CREATE_CONTRACT_ADDRESS == "create"

-----------------------------------------------------------------------------
(* Input domains *)

Forks == {"Frontier", "SpuriousDragon", "London"}
Addr == {"alice", "bob", "ctr", "new", "kid"}
Senders == {"alice"}
Coinbases == {"bob", "alice"}
\* code is modelled by its length in bytes; b"" is 0
NoCode == 0

Min(a, b) == IF a <= b THEN a ELSE b

IsLondon(c) == c.fork = "London"
IsFrontier(c) == c.fork = "Frontier"

-----------------------------------------------------------------------------
(* The state facade: accounts plus a journal of snapshots *)

get_balance(s, a) == s.acct.balance[a]
get_nonce(s, a) == s.acct.nonce[a]
get_code(s, a) == s.acct.code[a]

delta_balance(s, a, d) ==
    [s EXCEPT !.acct.balance[a] = @ + d, !.acct.exists = @ \cup {a}]

increment_nonce(s, a) ==
    [s EXCEPT !.acct.nonce[a] = @ + 1, !.acct.exists = @ \cup {a}]

touch_account(s, a) == [s EXCEPT !.acct.exists = @ \cup {a}]

set_code(s, a, c) == [s EXCEPT !.acct.code[a] = c, !.acct.exists = @ \cup {a}]

set_storage(s, a, v) ==
    [s EXCEPT !.acct.storage[a] = v, !.acct.exists = @ \cup {a}]

delete_account(s, a) ==
    [s EXCEPT !.acct.balance[a] = 0, !.acct.nonce[a] = 0, !.acct.code[a] = NoCode,
              !.acct.storage[a] = 0, !.acct.exists = @ \ {a}]

account_exists(s, a) == a \in s.acct.exists

account_is_empty(s, a) ==
    s.acct.nonce[a] = 0 /\ s.acct.balance[a] = 0 /\ s.acct.code[a] = NoCode

has_code_or_nonce(s, a) == s.acct.nonce[a] # 0 \/ s.acct.code[a] # NoCode

\* snapshot() pushes the accounts; the token is the new depth of the journal
snapshot(s) == [s EXCEPT !.journal = Append(@, s.acct)]
snapshot_token(s) == Len(s.journal) + 1

\* what a revert or commit of token does wrong, if anything: the token names no
\* open snapshot ("stale"), a snapshot other than the most recent open one
\* ("not_lifo"), or, for a revert, a snapshot taken before the last
\* lock_changes ("locked")
resolve_faults(s, token, is_revert) ==
    IF token \notin 1..Len(s.journal) THEN {"stale"}
    ELSE (IF token # Len(s.journal) THEN {"not_lifo"} ELSE {})
         \cup (IF is_revert /\ token <= s.locked THEN {"locked"} ELSE {})

\* revert(token): back to the accounts of the snapshot, which is closed together
\* with every snapshot taken after it
revert(s, token) ==
    IF token \notin 1..Len(s.journal)
    THEN [s EXCEPT !.faults = @ \cup resolve_faults(s, token, TRUE)]
    ELSE [s EXCEPT !.acct = s.journal[token],
                   !.journal = SubSeq(@, 1, token - 1),
                   !.faults = @ \cup resolve_faults(s, token, TRUE)]

\* commit(token): keep the accounts, close the snapshot and those after it
commit(s, token) ==
    IF token \notin 1..Len(s.journal)
    THEN [s EXCEPT !.faults = @ \cup resolve_faults(s, token, FALSE)]
    ELSE [s EXCEPT !.journal = SubSeq(@, 1, token - 1),
                   !.faults = @ \cup resolve_faults(s, token, FALSE)]

\* lock_changes marks every snapshot open so far as taken before the lock
lock_changes(s) == [s EXCEPT !.locked = Len(s.journal)]

-----------------------------------------------------------------------------
(* Transactions, gas price and tip *)

\* transaction.intrinsic_gas: the base cost of a transaction
intrinsic_gas(t) == 21000

\* BaseState.get_gas_price / get_tip before London: the transaction's gas price
base_get_gas_price(t) == t.gas_price
base_get_tip(t) == t.gas_price

\* get_tip that forgets the cap max_fee_per_gas - base_fee_per_gas
london_get_tip_uncapped(c, t) == t.max_priority_fee_per_gas

london_get_tip(c, t) ==
    Min(t.max_fee_per_gas - c.base_fee_per_gas, t.max_priority_fee_per_gas)

london_get_gas_price(c, t) ==
    Min(t.max_fee_per_gas, t.max_priority_fee_per_gas + c.base_fee_per_gas)

get_tip(c, t) == IF IsLondon(c) THEN london_get_tip(c, t) ELSE base_get_tip(t)

get_gas_price(c, t) ==
    IF IsLondon(c) THEN london_get_gas_price(c, t) ELSE base_get_gas_price(t)

\* gas_price of the transaction context (GASPRICE opcode, refund price)
london_get_transaction_context(c, t) ==
    [gas_price |-> Min(t.max_priority_fee_per_gas + c.base_fee_per_gas,
                       t.max_fee_per_gas),
     origin |-> t.sender]

base_get_transaction_context(t) == [gas_price |-> t.gas_price, origin |-> t.sender]

get_transaction_context(c, t) ==
    IF IsLondon(c) THEN london_get_transaction_context(c, t)
    ELSE base_get_transaction_context(t)

-----------------------------------------------------------------------------
(* Validation *)

\* validate_frontier_transaction that leaves the value out of the cost
validate_frontier_transaction_ignores_value(s, c, t) ==
    LET max_gas_cost == t.gas * get_gas_price(c, t)
        sender_balance == get_balance(s, t.sender)
        sender_nonce == get_nonce(s, t.sender)
    IN  /\ ~(sender_balance < max_gas_cost)
        /\ ~(sender_nonce # t.nonce)

\* TRUE iff validate_frontier_transaction returns without raising
validate_frontier_transaction(s, c, t) ==
    LET max_gas_cost == t.gas * get_gas_price(c, t)
        sender_balance == get_balance(s, t.sender)
        total_cost == t.value + max_gas_cost
        sender_nonce == get_nonce(s, t.sender)
    IN  /\ ~(sender_balance < max_gas_cost)
        /\ ~(sender_balance < total_cost)
        /\ ~(sender_nonce # t.nonce)

\* the validation against the header that forgets the gas already used
validate_frontier_transaction_against_header_of_empty_block(h, t) ==
    ~(t.gas > h.gas_limit)

\* TRUE iff validate_frontier_transaction_against_header returns without raising
validate_frontier_transaction_against_header(h, t) ==
    ~(h.gas_used + t.gas > h.gas_limit)

\* transaction.validate(): enough gas for the intrinsic cost, and for a
\* dynamic-fee transaction max_fee_per_gas >= max_priority_fee_per_gas
transaction_validate(t) ==
    /\ t.gas >= intrinsic_gas(t)
    /\ t.max_fee_per_gas >= t.max_priority_fee_per_gas

\* London: max_fee_per_gas >= base_fee, then the Frontier checks
validate_london_normalized_transaction(s, c, t) ==
    /\ t.max_fee_per_gas >= c.base_fee_per_gas
    /\ validate_frontier_transaction(s, c, t)

state_validate_transaction(s, c, t) ==
    IF IsLondon(c) THEN validate_london_normalized_transaction(s, c, t)
    ELSE validate_frontier_transaction(s, c, t)

\* FrontierTransactionExecutor.validate_transaction
validate_transaction(s, c, t) ==
    transaction_validate(t) /\ state_validate_transaction(s, c, t)

-----------------------------------------------------------------------------
(* Messages *)

\* the address of a contract created by an account: one for the contracts of an
\* externally owned sender, one for those a contract creates
generate_contract_address(sender, nonce) == IF sender \in Senders THEN "new" ELSE "kid"

Message(gas, to, sender, value, data, code, create_address) ==
    [gas |-> gas, to |-> to, sender |-> sender, value |-> value, data |-> data,
     code |-> code, create_address |-> create_address,
     storage_address |-> IF create_address # "none" THEN create_address ELSE to,
     is_create |-> (to = CREATE_CONTRACT_ADDRESS),
     should_transfer_value |-> TRUE,
     depth |-> 0]

NoMessage == Message(0, "none", "none", 0, 0, 0, "none")

\* build_evm_message that does not increment the nonce of the sender
build_evm_message_keeps_nonce(s, c, t) ==
    LET gas_fee == t.gas * get_gas_price(c, t)
        s2 == delta_balance(s, t.sender, -1 * gas_fee)
        message_gas == t.gas - intrinsic_gas(t)
    IN  [state |-> s2,
         message |->
            IF t.to = CREATE_CONTRACT_ADDRESS
            THEN Message(message_gas, t.to, t.sender, t.value, NoCode, t.data,
                         generate_contract_address(t.sender, get_nonce(s2, t.sender)))
            ELSE Message(message_gas, t.to, t.sender, t.value, t.data,
                         get_code(s2, t.to), "none")]

\* build_evm_message: buy gas, increment the nonce, set up the message
build_evm_message(s, c, t) ==
    LET gas_fee == t.gas * get_gas_price(c, t)
        s1 == delta_balance(s, t.sender, -1 * gas_fee)
        s2 == increment_nonce(s1, t.sender)
        message_gas == t.gas - intrinsic_gas(t)
    IN  [state |-> s2,
         message |->
            IF t.to = CREATE_CONTRACT_ADDRESS
            THEN Message(message_gas, t.to, t.sender, t.value, NoCode, t.data,
                         generate_contract_address(t.sender,
                                                   get_nonce(s2, t.sender) - 1))
            ELSE Message(message_gas, t.to, t.sender, t.value, t.data,
                         get_code(s2, t.to), "none")]

-----------------------------------------------------------------------------
(* Computations *)

\* the log entry the code at address a emits: its address and two topics
Log(a) == [address |-> a, topics |-> <<1, 2>>]

\* a fresh computation for a message: full gas, nothing refunded, no error
get_computation(m) ==
    [msg |-> m, error |-> "none", gas_remaining |-> m.gas, gas_refunded |-> 0,
     accounts_to_delete |-> {}, output |-> NoCode, logs |-> {}]

NoComputation == get_computation(NoMessage)

is_error(cp) == cp.error # "none"

\* every error but Revert burns the gas that is left
should_burn_gas(cp) == is_error(cp) /\ cp.error # "Revert"

get_gas_remaining(cp) == IF should_burn_gas(cp) THEN 0 ELSE cp.gas_remaining

get_gas_refund(cp) == IF is_error(cp) THEN 0 ELSE cp.gas_refunded

get_accounts_for_deletion(cp) == IF is_error(cp) THEN {} ELSE cp.accounts_to_delete

refund_gas(cp, amount) == [cp EXCEPT !.gas_refunded = @ + amount]

\* the refund an SSTORE earns: clearing a nonzero slot
SstoreRefund(s, a) == IF s.acct.storage[a] # 0 THEN 15000 ELSE 0

\* What running the code of a message can do.  An outcome names the error the
\* run ends in, the gas left in the meter, the effect the code had on the state,
\* the output, and the child calls the code spawned (CALL or CREATE opcodes,
\* each with its own outcome).  Code that is empty does nothing and uses no gas.
\* The REVERT opcode exists from Byzantium on, so of the forks here in London.
Outcomes(c, m) ==
    IF m.code = NoCode
    THEN {[error |-> "none", gas_left |-> m.gas, effect |-> "none", output |-> NoCode,
           calls |-> <<>>]}
    ELSE {o \in [error : {"none", "OutOfGas"} \cup (IF IsLondon(c) THEN {"Revert"} ELSE {}),
                 gas_left : {g \in {0, 60000, m.gas} : g <= m.gas},
                 effect : {"none", "sstore", "selfdestruct"},
                 output : IF m.is_create THEN {NoCode, 100} ELSE {NoCode},
                 calls : {<<>>}] :
            /\ (o.effect # "none" => o.gas_left < m.gas)
            /\ (o.error = "OutOfGas" => o.output = NoCode)}

NoOutcome ==
    [error |-> "none", gas_left |-> 0, effect |-> "none", output |-> NoCode,
     calls |-> <<>>]

Beneficiary == "bob"

RECURSIVE apply_message(_, _, _, _)
RECURSIVE apply_create_message(_, _, _, _)

\* the effect of the code of the message itself, before it spawns a child
apply_effect(s, m, o) ==
    LET a == m.storage_address
        cp0 == [get_computation(m) EXCEPT !.error = o.error,
                                          !.gas_remaining = o.gas_left,
                                          !.output = o.output]
    IN  CASE o.effect = "sstore" ->
                [state |-> set_storage(s, a, IF s.acct.storage[a] = 0 THEN 1 ELSE 0),
                 computation |-> [cp0 EXCEPT !.gas_refunded = SstoreRefund(s, a),
                                             !.logs = {Log(a)}],
                 raised |-> "none"]
          [] o.effect = "selfdestruct" ->
                [state |-> [delta_balance(s, Beneficiary, get_balance(s, a))
                               EXCEPT !.acct.balance[a] = 0],
                 computation |-> [cp0 EXCEPT !.accounts_to_delete = {<<a, Beneficiary>>}],
                 raised |-> "none"]
          [] OTHER -> [state |-> s, computation |-> cp0, raised |-> "none"]

\* the message a CALL or CREATE opcode of the code of m builds for child ch
child_message(s, m, ch) ==
    LET caller == m.storage_address
    IN  [(IF ch.to = CREATE_CONTRACT_ADDRESS
          THEN Message(m.gas, ch.to, caller, ch.value, NoCode, 10,
                       generate_contract_address(caller, get_nonce(s, caller)))
          ELSE Message(m.gas, ch.to, caller, ch.value, NoCode, get_code(s, ch.to),
                       "none"))
         EXCEPT !.depth = m.depth + 1]

\* what a CALL or CREATE opcode leaves to the parent cp of a child that
\* returned r: what a child that did not fail refunded, logged and queued for
\* deletion counts for the parent
return_to_parent(cp, r) ==
    LET child == r.computation
    IN  [state |-> r.state,
         computation |->
            IF is_error(child) THEN cp
            ELSE [cp EXCEPT !.gas_refunded = @ + child.gas_refunded,
                            !.logs = @ \cup child.logs,
                            !.accounts_to_delete = @ \cup child.accounts_to_delete],
         raised |-> "none"]

\* a CALL or CREATE opcode: the opcode spawns no child when the depth limit is
\* reached, the caller cannot pay the value or the new address is taken;
\* otherwise the child runs on the same state
apply_child(s, c, m, cp, ch) ==
    LET caller == m.storage_address
        is_create == ch.to = CREATE_CONTRACT_ADDRESS
        cm == child_message(s, m, ch)
        refused == \/ cm.depth > STACK_DEPTH_LIMIT
                   \/ get_balance(s, caller) < ch.value
                   \/ is_create /\ has_code_or_nonce(s, cm.storage_address)
    IN  IF refused THEN [state |-> s, computation |-> cp, raised |-> "none"]
        ELSE return_to_parent(
                 cp,
                 IF is_create
                 THEN apply_create_message(increment_nonce(s, caller), c, cm, ch.outcome)
                 ELSE apply_message(s, c, cm, ch.outcome))

\* apply_computation: run the code of the message on the state
apply_computation(s, c, m, o) ==
    IF m.code = NoCode
    THEN [state |-> s, computation |-> get_computation(m), raised |-> "none"]
    ELSE LET e == apply_effect(s, m, o)
         IN  IF o.calls = <<>> THEN e
             ELSE apply_child(e.state, c, m, e.computation, o.calls[1])

\* apply_message that transfers the value without looking at the balance
apply_message_open_transfers_unchecked(s, c, m, o) ==
    LET s0 == snapshot(s)
    IN  IF m.depth > STACK_DEPTH_LIMIT
        THEN [state |-> s0, computation |-> get_computation(m),
              raised |-> "StackDepthLimit"]
        ELSE
          LET s1 == IF m.should_transfer_value /\ m.value # 0
                    THEN delta_balance(delta_balance(s0, m.sender, -1 * m.value),
                                       m.storage_address, m.value)
                    ELSE s0
          IN  apply_computation(touch_account(s1, m.storage_address), c, m, o)

\* apply_message that refuses the message at the depth limit itself
apply_message_open_limit_inclusive(s, c, m, o) ==
    LET s0 == snapshot(s)
    IN  IF m.depth >= STACK_DEPTH_LIMIT
        THEN [state |-> s0, computation |-> get_computation(m),
              raised |-> "StackDepthLimit"]
        ELSE IF m.should_transfer_value /\ m.value # 0
                  /\ get_balance(s0, m.sender) < m.value
        THEN [state |-> s0, computation |-> get_computation(m),
              raised |-> "InsufficientFunds"]
        ELSE
          LET s1 == IF m.should_transfer_value /\ m.value # 0
                    THEN delta_balance(delta_balance(s0, m.sender, -1 * m.value),
                                       m.storage_address, m.value)
                    ELSE s0
          IN  apply_computation(touch_account(s1, m.storage_address), c, m, o)

\* FrontierComputation.apply_message up to the return of apply_computation: the
\* snapshot is open.  raised names the exception that leaves the call, "none"
\* when none does.
apply_message_open(s, c, m, o) ==
    LET s0 == snapshot(s)
    IN  IF m.depth > STACK_DEPTH_LIMIT
        THEN [state |-> s0, computation |-> get_computation(m),
              raised |-> "StackDepthLimit"]
        ELSE IF m.should_transfer_value /\ m.value # 0
                  /\ get_balance(s0, m.sender) < m.value
        THEN [state |-> s0, computation |-> get_computation(m),
              raised |-> "InsufficientFunds"]
        ELSE
          LET s1 == IF m.should_transfer_value /\ m.value # 0
                    THEN delta_balance(delta_balance(s0, m.sender, -1 * m.value),
                                       m.storage_address, m.value)
                    ELSE s0
          IN  apply_computation(touch_account(s1, m.storage_address), c, m, o)

\* apply_message that takes its snapshot only after the value transfer
apply_message_snapshot_after_transfer(s, c, m, o) ==
    IF m.depth > STACK_DEPTH_LIMIT
    THEN [state |-> snapshot(s), computation |-> get_computation(m),
          raised |-> "StackDepthLimit"]
    ELSE IF m.should_transfer_value /\ m.value # 0 /\ get_balance(s, m.sender) < m.value
    THEN [state |-> snapshot(s), computation |-> get_computation(m),
          raised |-> "InsufficientFunds"]
    ELSE
      LET s1 == IF m.should_transfer_value /\ m.value # 0
                THEN delta_balance(delta_balance(s, m.sender, -1 * m.value),
                                   m.storage_address, m.value)
                ELSE s
          token == snapshot_token(s1)
          s2 == touch_account(snapshot(s1), m.storage_address)
          r  == apply_computation(s2, c, m, o)
      IN  [state |-> IF is_error(r.computation) THEN revert(r.state, token)
                     ELSE commit(r.state, token),
           computation |-> r.computation, raised |-> "none"]

\* the end of apply_message, r being what it did with the snapshot open: an
\* exception leaves the call; otherwise the snapshot is reverted when the
\* computation ended in error and committed when it did not
resolve_snapshot(token, r) ==
    IF r.raised # "none" THEN r
    ELSE [r EXCEPT !.state = IF is_error(r.computation)
                             THEN revert(r.state, token)
                             ELSE commit(r.state, token)]

\* apply_message that commits its snapshot whatever the computation ended in
apply_message_always_commits(s, c, m, o) ==
    LET token == snapshot_token(s)
        r == apply_message_open(s, c, m, o)
    IN  IF r.raised # "none" THEN r
        ELSE [r EXCEPT !.state = commit(r.state, token)]

\* FrontierComputation.apply_message: revert the snapshot when the computation
\* ended in error, commit it otherwise
apply_message(s, c, m, o) ==
    resolve_snapshot(snapshot_token(s), apply_message_open(s, c, m, o))

\* apply_create_message that reports the failed deposit as an OutOfGas error
frontier_apply_create_message_sets_error(s, c, m, o) ==
    LET r == apply_message(s, c, m, o)
        cp == r.computation
        contract_code == cp.output
        contract_code_gas_fee == contract_code * GAS_CODEDEPOSIT
    IN  IF r.raised # "none" \/ is_error(cp) THEN r
        ELSE IF contract_code # NoCode
        THEN IF cp.gas_remaining < contract_code_gas_fee
             THEN [r EXCEPT !.computation.error = "OutOfGas"]
             ELSE [r EXCEPT !.computation.gas_remaining = @ - contract_code_gas_fee,
                            !.state = set_code(r.state, m.storage_address,
                                               contract_code)]
        ELSE r

\* FrontierComputation.apply_create_message after apply_message has returned r:
\* the deposit of the contract code
frontier_deposit_code(m, r) ==
    LET cp == r.computation
        contract_code == cp.output
        contract_code_gas_fee == contract_code * GAS_CODEDEPOSIT
    IN  IF r.raised # "none" \/ is_error(cp) THEN r
        ELSE IF contract_code # NoCode
        THEN IF cp.gas_remaining < contract_code_gas_fee
             THEN [r EXCEPT !.computation.output = NoCode]
             ELSE [r EXCEPT !.computation.gas_remaining = @ - contract_code_gas_fee,
                            !.state = set_code(r.state, m.storage_address,
                                               contract_code)]
        ELSE r

\* FrontierComputation.apply_create_message
frontier_apply_create_message(s, c, m, o) ==
    frontier_deposit_code(m, apply_message(s, c, m, o))

EIP170_CODE_SIZE_LIMIT == 24576

\* validate_contract_code that rejects code of exactly the limit
validate_contract_code_off_by_one(contract_code) ==
    ~(contract_code >= EIP170_CODE_SIZE_LIMIT)

\* TRUE iff SpuriousDragonComputation.validate_contract_code returns without
\* raising OutOfGas
validate_contract_code(contract_code) == ~(contract_code > EIP170_CODE_SIZE_LIMIT)

\* apply_create_message that sets the error of a failed deposit but commits
spurious_dragon_apply_create_message_keeps_state(s, c, m, o) ==
    LET token == snapshot_token(s)
        s0 == increment_nonce(snapshot(s), m.storage_address)
        r == apply_message(s0, c, m, o)
        cp == r.computation
        contract_code == cp.output
        contract_code_gas_cost == contract_code * GAS_CODEDEPOSIT
    IN  IF r.raised # "none" THEN r
        ELSE IF is_error(cp) THEN [r EXCEPT !.state = revert(r.state, token)]
        ELSE IF contract_code # NoCode
        THEN IF ~validate_contract_code(contract_code)
                \/ cp.gas_remaining < contract_code_gas_cost
             THEN [r EXCEPT !.computation.error = "OutOfGas",
                            !.state = commit(r.state, token)]
             ELSE [r EXCEPT !.computation.gas_remaining = @ - contract_code_gas_cost,
                            !.state = commit(set_code(r.state, m.storage_address,
                                                      contract_code), token)]
        ELSE [r EXCEPT !.state = commit(r.state, token)]

\* apply_create_message that commits its snapshot after every path, the one
\* that reverted it included
spurious_dragon_apply_create_message_commits_after_revert(s, c, m, o) ==
    LET token == snapshot_token(s)
        s0 == increment_nonce(snapshot(s), m.storage_address)
        r == apply_message(s0, c, m, o)
        cp == r.computation
        contract_code == cp.output
        contract_code_gas_cost == contract_code * GAS_CODEDEPOSIT
    IN  IF r.raised # "none" THEN r
        ELSE IF is_error(cp) THEN [r EXCEPT !.state = revert(r.state, token)]
        ELSE IF contract_code # NoCode
        THEN IF ~validate_contract_code(contract_code)
                \/ cp.gas_remaining < contract_code_gas_cost
             THEN [r EXCEPT !.computation.error = "OutOfGas",
                            !.state = commit(revert(r.state, token), token)]
             ELSE [r EXCEPT !.computation.gas_remaining = @ - contract_code_gas_cost,
                            !.state = commit(set_code(r.state, m.storage_address,
                                                      contract_code), token)]
        ELSE [r EXCEPT !.state = commit(r.state, token)]

\* SpuriousDragonComputation.apply_create_message after apply_message has
\* returned r: the validation and the deposit of the contract code
spurious_dragon_deposit_code(token, m, r) ==
    LET cp == r.computation
        contract_code == cp.output
        contract_code_gas_cost == contract_code * GAS_CODEDEPOSIT
    IN  IF r.raised # "none" THEN r
        ELSE IF is_error(cp) THEN [r EXCEPT !.state = revert(r.state, token)]
        ELSE IF contract_code # NoCode
        THEN IF ~validate_contract_code(contract_code)
                \/ cp.gas_remaining < contract_code_gas_cost
             THEN [r EXCEPT !.computation.error = "OutOfGas",
                            !.state = revert(r.state, token)]
             ELSE [r EXCEPT !.computation.gas_remaining = @ - contract_code_gas_cost,
                            !.state = commit(set_code(r.state, m.storage_address,
                                                      contract_code), token)]
        ELSE [r EXCEPT !.state = commit(r.state, token)]

\* SpuriousDragonComputation.apply_create_message
spurious_dragon_apply_create_message(s, c, m, o) ==
    spurious_dragon_deposit_code(
        snapshot_token(s), m,
        apply_message(increment_nonce(snapshot(s), m.storage_address), c, m, o))

apply_create_message(s, c, m, o) ==
    IF IsFrontier(c) THEN frontier_apply_create_message(s, c, m, o)
    ELSE spurious_dragon_apply_create_message(s, c, m, o)

-----------------------------------------------------------------------------
(* The transaction executor *)

\* build_computation that creates without looking for a collision
build_computation_no_collision_check(s, c, m, o) ==
    IF m.is_create THEN apply_create_message(s, c, m, o)
    ELSE apply_message(s, c, m, o)

\* FrontierTransactionExecutor.build_computation
build_computation(s, c, m, o) ==
    IF m.is_create
    THEN IF has_code_or_nonce(s, m.storage_address)
         THEN [state |-> s,
               computation |-> [get_computation(m) EXCEPT
                                    !.error = "ContractCreationCollision"],
               raised |-> "none"]
         ELSE apply_create_message(s, c, m, o)
    ELSE apply_message(s, c, m, o)

\* the Frontier refund without the selfdestruct refunds
frontier_calculate_gas_refund_no_selfdestruct(cp, gas_used) ==
    LET gas_refunded == get_gas_refund(cp)
    IN  Min(gas_refunded, gas_used \div MAX_REFUND_QUOTIENT)

frontier_calculate_gas_refund(cp, gas_used) ==
    LET num_deletions == Cardinality(get_accounts_for_deletion(cp))
        cp1 == IF num_deletions # 0
               THEN refund_gas(cp, REFUND_SELFDESTRUCT * num_deletions)
               ELSE cp
        gas_refunded == get_gas_refund(cp1)
    IN  Min(gas_refunded, gas_used \div MAX_REFUND_QUOTIENT)

\* the London refund with the quotient of the earlier forks
london_calculate_gas_refund_old_quotient(cp, gas_used) ==
    LET gas_refunded == get_gas_refund(cp)
    IN  Min(gas_refunded, gas_used \div MAX_REFUND_QUOTIENT)

london_calculate_gas_refund(cp, gas_used) ==
    LET gas_refunded == get_gas_refund(cp)
    IN  Min(gas_refunded, gas_used \div EIP3529_MAX_REFUND_QUOTIENT)

calculate_gas_refund(c, cp, gas_used) ==
    IF IsLondon(c) THEN london_calculate_gas_refund(cp, gas_used)
    ELSE frontier_calculate_gas_refund(cp, gas_used)

\* finalize_computation that refunds no remaining gas after any error
finalize_locals_no_refund_on_error(c, t, cp) ==
    LET transaction_context == get_transaction_context(c, t)
        gas_remaining == IF is_error(cp) THEN 0 ELSE get_gas_remaining(cp)
        gas_used == t.gas - gas_remaining
        gas_refund == calculate_gas_refund(c, cp, gas_used)
        gas_refund_amount == (gas_refund + gas_remaining) * transaction_context.gas_price
        gas_used_final == t.gas - gas_remaining - gas_refund
        transaction_fee == gas_used_final * get_tip(c, t)
    IN  [gas_remaining |-> gas_remaining, gas_used |-> gas_used,
         gas_refund |-> gas_refund, gas_refund_amount |-> gas_refund_amount,
         gas_used_final |-> gas_used_final, transaction_fee |-> transaction_fee]

\* the locals of FrontierTransactionExecutor.finalize_computation
finalize_locals(c, t, cp) ==
    LET transaction_context == get_transaction_context(c, t)
        gas_remaining == get_gas_remaining(cp)
        gas_used == t.gas - gas_remaining
        gas_refund == calculate_gas_refund(c, cp, gas_used)
        gas_refund_amount == (gas_refund + gas_remaining) * transaction_context.gas_price
        gas_used_final == t.gas - gas_remaining - gas_refund
        transaction_fee == gas_used_final * get_tip(c, t)
    IN  [gas_remaining |-> gas_remaining, gas_used |-> gas_used,
         gas_refund |-> gas_refund, gas_refund_amount |-> gas_refund_amount,
         gas_used_final |-> gas_used_final, transaction_fee |-> transaction_fee]

NoLocals ==
    [gas_remaining |-> 0, gas_used |-> 0, gas_refund |-> 0, gas_refund_amount |-> 0,
     gas_used_final |-> 0, transaction_fee |-> 0]

RECURSIVE delete_accounts(_, _)
delete_accounts(s, accounts) ==
    IF accounts = {} THEN s
    ELSE LET a == CHOOSE x \in accounts : TRUE
         IN  delete_accounts(delete_account(s, a), accounts \ {a})

\* finalize_computation that pays the coinbase for the gas used before the refund
frontier_finalize_computation_fee_before_refund(s, c, t, cp) ==
    LET l == finalize_locals(c, t, cp)
        s1 == IF l.gas_refund_amount # 0
              THEN delta_balance(s, cp.msg.sender, l.gas_refund_amount)
              ELSE s
        s2 == delta_balance(s1, c.coinbase, l.gas_used * get_tip(c, t))
    IN  delete_accounts(s2, {d[1] : d \in get_accounts_for_deletion(cp)})

\* finalize_computation that deletes the queued accounts before it credits the
\* refund and the fee
frontier_finalize_computation_deletes_first(s, c, t, cp) ==
    LET l == finalize_locals(c, t, cp)
        s0 == delete_accounts(s, {d[1] : d \in get_accounts_for_deletion(cp)})
        s1 == IF l.gas_refund_amount # 0
              THEN delta_balance(s0, cp.msg.sender, l.gas_refund_amount)
              ELSE s0
    IN  delta_balance(s1, c.coinbase, l.transaction_fee)

\* FrontierTransactionExecutor.finalize_computation: refund the sender, pay the
\* coinbase, delete the accounts queued for deletion
frontier_finalize_computation(s, c, t, cp) ==
    LET l == finalize_locals(c, t, cp)
        s1 == IF l.gas_refund_amount # 0
              THEN delta_balance(s, cp.msg.sender, l.gas_refund_amount)
              ELSE s
        s2 == delta_balance(s1, c.coinbase, l.transaction_fee)
    IN  delete_accounts(s2, {d[1] : d \in get_accounts_for_deletion(cp)})

\* the accounts a transaction touched: the coinbase, and for a computation
\* that did not fail the account addressed and the selfdestruct beneficiaries
collect_touched_accounts(c, cp) ==
    {c.coinbase}
    \cup (IF is_error(cp) THEN {}
          ELSE {d[2] : d \in cp.accounts_to_delete}
               \cup (IF cp.msg.to # CREATE_CONTRACT_ADDRESS THEN {cp.msg.to} ELSE {}))

RECURSIVE clear_empty_accounts(_, _)
clear_empty_accounts(s, accounts) ==
    IF accounts = {} THEN s
    ELSE LET a == CHOOSE x \in accounts : TRUE
             should_delete == account_exists(s, a) /\ account_is_empty(s, a)
         IN  clear_empty_accounts(IF should_delete THEN delete_account(s, a) ELSE s,
                                  accounts \ {a})

\* finalize_computation that sweeps the touched accounts before the refund,
\* the coinbase credit and the selfdestruct deletions
spurious_dragon_finalize_computation_sweeps_first(s, c, t, cp) ==
    frontier_finalize_computation(
        clear_empty_accounts(s, collect_touched_accounts(c, cp)), c, t, cp)

\* SpuriousDragonTransactionExecutor.finalize_computation
spurious_dragon_finalize_computation(s, c, t, cp) ==
    clear_empty_accounts(frontier_finalize_computation(s, c, t, cp),
                         collect_touched_accounts(c, cp))

finalize_computation(s, c, t, cp) ==
    IF IsFrontier(c) THEN frontier_finalize_computation(s, c, t, cp)
    ELSE spurious_dragon_finalize_computation(s, c, t, cp)

\* the computation finalize_computation returns: before London
\* calculate_gas_refund has added the selfdestruct refunds to its counter
finalized_computation(c, cp) ==
    LET num_deletions == Cardinality(get_accounts_for_deletion(cp))
    IN  IF ~IsLondon(c) /\ num_deletions # 0
        THEN refund_gas(cp, REFUND_SELFDESTRUCT * num_deletions)
        ELSE cp

-----------------------------------------------------------------------------
(* Receipts and the header *)

get_log_entries(cp) == IF is_error(cp) THEN {} ELSE cp.logs

\* an address as the bloom filter holds it: its 20 bytes, read as a number
Bytes20(a) ==
    [len |-> 20,
     value |-> CASE a = "alice" -> 1 [] a = "bob" -> 2 [] a = "ctr" -> 3
                 [] a = "new" -> 4 [] OTHER -> 5]

\* uint32.serialize(topic): the topic as 32 big-endian bytes
uint32_serialize(topic) == [len |-> 32, value |-> topic]

\* log.bloomables: the address and the serialized topics of a log entry
bloomables(log) ==
    {Bytes20(log.address)}
        \cup {uint32_serialize(log.topics[i]) : i \in 1..Len(log.topics)}

\* make_receipt: status, cumulative gas, logs and the bloom filter of the logs
make_receipt(h, t, cp, l) ==
    [status |-> ~is_error(cp),
     gas_used |-> h.gas_used + l.gas_used_final,
     logs |-> get_log_entries(cp),
     bloom_filter |-> UNION {bloomables(log) : log \in get_log_entries(cp)}]

NoReceipt == [status |-> FALSE, gas_used |-> 0, logs |-> {}, bloom_filter |-> {}]

\* validate_receipt that looks at the addresses of the logs only
validate_receipt_addresses_only(r) ==
    \A log \in r.logs : Bytes20(log.address) \in r.bloom_filter

\* TRUE iff VM.validate_receipt returns without raising: the first loop tests
\* the address of every log, the second every topic of every log; what
\* already_checked skips was found in the bloom filter before
validate_receipt(r) ==
    /\ \A log \in r.logs : ~(Bytes20(log.address) \notin r.bloom_filter)
    /\ \A log \in r.logs : \A i \in 1..Len(log.topics) :
           ~(uint32_serialize(log.topics[i]) \notin r.bloom_filter)

add_receipt_to_header(h, r) == [h EXCEPT !.gas_used = r.gas_used]

-----------------------------------------------------------------------------
(* VM.apply_transaction and VM.apply_all_transactions *)

\* apply_transaction that locks the changes only after the execution
apply_transaction_steps_lock_late ==
    <<"validate_transaction_against_header",
      "validate_transaction", "build_evm_message", "build_computation",
      "finalize_computation", "lock_changes",
      "make_receipt", "validate_receipt">>

\* the steps of VM.apply_transaction in the order of its statements; the four
\* steps from validate_transaction to finalize_computation are the transaction
\* executor that self.state.apply_transaction(transaction) runs
apply_transaction_steps ==
    <<"validate_transaction_against_header", "lock_changes",
      "validate_transaction", "build_evm_message", "build_computation",
      "finalize_computation",
      "make_receipt", "validate_receipt">>

ExecutorSteps ==
    {"validate_transaction", "build_evm_message", "build_computation",
     "finalize_computation"}

\* where control goes when step p returns without raising
StepAfter(p) ==
    LET i == CHOOSE k \in 1..Len(apply_transaction_steps) :
                 apply_transaction_steps[k] = p
    IN  IF i = Len(apply_transaction_steps) THEN "add_receipt"
        ELSE apply_transaction_steps[i + 1]

\* the call of apply_transaction that step p belongs to
CallOf(p) == IF p \in ExecutorSteps THEN "state.apply_transaction" ELSE p

Called(p) == IF calls # <<>> /\ calls[Len(calls)] = CallOf(p) THEN calls
             ELSE Append(calls, CallOf(p))

FeeChoices(c) ==
    IF IsLondon(c)
    THEN {<<0, 0>>, <<2, 1>>, <<2, 2>>, <<1, 2>>}
    ELSE {<<0, 0>>, <<2, 2>>}

\* the transactions a block may hold: fee is <<max_fee_per_gas,
\* max_priority_fee_per_gas>>, both the gas price for a legacy transaction
Transactions(s, c) ==
    {[sender |-> sd, to |-> to, value |-> v, gas |-> g,
      nonce |-> get_nonce(s, sd) + d,
      gas_price |-> fee[1], max_fee_per_gas |-> fee[1],
      max_priority_fee_per_gas |-> fee[2],
      data |-> IF to = CREATE_CONTRACT_ADDRESS THEN 10 ELSE NoCode] :
        sd \in Senders, to \in {"bob", "ctr", CREATE_CONTRACT_ADDRESS},
        v \in {0, 1}, g \in {20000, 21000, 100000},
        d \in {0, 1},
        fee \in FeeChoices(c)}

NoTx == [sender |-> "none", to |-> "none", value |-> 0, gas |-> 0, nonce |-> 0,
         gas_price |-> 0, max_fee_per_gas |-> 0, max_priority_fee_per_gas |-> 0,
         data |-> NoCode]

\* the accounts of the state root of the parent block
InitAccounts ==
    [balance |-> [a \in Addr |-> CASE a = "alice" -> 200000 [] a = "ctr" -> 5
                                   [] OTHER -> 0],
     nonce |-> [a \in Addr |-> 0],
     code |-> [a \in Addr |-> IF a = "ctr" THEN 50 ELSE NoCode],
     storage |-> [a \in Addr |-> IF a = "ctr" THEN 1 ELSE 0],
     exists |-> {"alice", "ctr"}]

\* make_trie_root_and_nodes(items)[0]: the root of the trie of a list
make_trie_root(items) == [kind |-> "trie", items |-> items]

BLANK_ROOT_HASH == make_trie_root(<<>>)

\* keccak(rlp.encode(uncles))
keccak_rlp(uncles) == [kind |-> "keccak", items |-> uncles]

\* the root of the state trie that holds the accounts
state_root_of(acct) == [kind |-> "state", accounts |-> acct]

\* state.make_state_root(): the root of the accounts as they are now
make_state_root(s) == state_root_of(s.acct)

\* the header of the parent of the block that is imported
ParentHeader ==
    [is_none |-> FALSE, block_number |-> 9, timestamp |-> 100, gas_limit |-> 121000]

\* the database before the block: the accounts of the parent's state root
InitChaindb ==
    [accounts |-> InitAccounts, roots |-> {state_root_of(InitAccounts)},
     parent |-> ParentHeader]

\* the header of the VM before import_block fills it: created from the parent,
\* its roots blank but for the state root of the parent
NoHeader ==
    [block_number |-> 0, timestamp |-> 0, gas_limit |-> 121000, gas_used |-> 0,
     extra_data |-> 0,
     transaction_root |-> BLANK_ROOT_HASH, receipt_root |-> BLANK_ROOT_HASH,
     withdrawals_root |-> BLANK_ROOT_HASH,
     state_root |-> state_root_of(InitAccounts),
     uncles_hash |-> keccak_rlp(<<>>)]

\* a block: its number, the coinbase of its header, its uncles (coinbase and
\* number), the block reward of the VM's fork, which is 0 after the merge,
\* its transactions, its withdrawals when the block class has the field, and
\* its header; a transaction of the block is modelled by its index in the
\* block, extra_data by its length
NoBlock ==
    [number |-> 0, coinbase |-> "none", uncles |-> <<>>, block_reward |-> 0,
     transactions |-> <<>>,
     has_withdrawals |-> FALSE, withdrawals |-> <<>>,
     header |-> NoHeader]

\* what import_block reads of the block it is handed once the transactions
\* are applied: number, coinbase, uncles, timestamp and extra_data
Blocks(c) ==
    {[number |-> 0, coinbase |-> c.coinbase, uncles |-> <<>>, block_reward |-> 32,
      timestamp |-> 0, extra_data |-> 32],
     [number |-> 10, coinbase |-> c.coinbase, uncles |-> <<>>, block_reward |-> 0,
      timestamp |-> 101, extra_data |-> 0],
     [number |-> 10, coinbase |-> c.coinbase,
      uncles |-> <<[coinbase |-> "ctr", number |-> 9]>>, block_reward |-> 32,
      timestamp |-> 101, extra_data |-> 32],
     [number |-> 10, coinbase |-> c.coinbase,
      uncles |-> <<[coinbase |-> c.coinbase, number |-> 4],
                   [coinbase |-> "ctr", number |-> 9]>>, block_reward |-> 32,
      timestamp |-> 100, extra_data |-> 0]}

\* the withdrawals of the block that is imported
BlockWithdrawals(c) ==
    IF IsLondon(c)
    THEN {[has_withdrawals |-> FALSE, withdrawals |-> <<>>],
          [has_withdrawals |-> TRUE, withdrawals |-> <<>>],
          [has_withdrawals |-> TRUE,
           withdrawals |-> <<[address |-> "bob", amount |-> 1, valid |-> TRUE]>>]}
    ELSE {[has_withdrawals |-> FALSE, withdrawals |-> <<>>]}

get_block_reward(blk) == blk.block_reward

get_nephew_reward(blk) == get_block_reward(blk) \div 32

get_uncle_reward(blk, uncle) ==
    ((uncle.number + 8 - blk.number) * get_block_reward(blk)) \div 8

\* 10^9: a withdrawal names its amount in gwei
GWEI_TO_WEI == 1000000000

\* TRUE iff withdrawal.validate() returns without raising
validate_withdrawal(w) == w.valid

\* state.apply_withdrawal
apply_withdrawal(s, w) == delta_balance(s, w.address, w.amount * GWEI_TO_WEI)

\* the first loop of apply_all_withdrawals, from withdrawal i on: validate,
\* apply, note the address when it is new
RECURSIVE apply_withdrawals_from(_, _, _, _)
apply_withdrawals_from(s, withdrawals, i, touched_addresses) ==
    IF i > Len(withdrawals)
    THEN [state |-> s, touched_addresses |-> touched_addresses, raised |-> "none"]
    ELSE IF ~validate_withdrawal(withdrawals[i])
    THEN [state |-> s, touched_addresses |-> touched_addresses,
          raised |-> "ValidationError"]
    ELSE apply_withdrawals_from(
             apply_withdrawal(s, withdrawals[i]), withdrawals, i + 1,
             IF \E j \in 1..Len(touched_addresses) :
                    touched_addresses[j] = withdrawals[i].address
             THEN touched_addresses
             ELSE Append(touched_addresses, withdrawals[i].address))

\* the second loop of apply_all_withdrawals, from address i on
RECURSIVE delete_empty_addresses(_, _, _)
delete_empty_addresses(s, touched_addresses, i) ==
    IF i > Len(touched_addresses) THEN s
    ELSE delete_empty_addresses(
             IF account_is_empty(s, touched_addresses[i])
             THEN delete_account(s, touched_addresses[i]) ELSE s,
             touched_addresses, i + 1)

\* the first loop, noting only the addresses that are empty right after their
\* withdrawal
RECURSIVE apply_withdrawals_noting_empty(_, _, _, _)
apply_withdrawals_noting_empty(s, withdrawals, i, touched_addresses) ==
    IF i > Len(withdrawals)
    THEN [state |-> s, touched_addresses |-> touched_addresses, raised |-> "none"]
    ELSE IF ~validate_withdrawal(withdrawals[i])
    THEN [state |-> s, touched_addresses |-> touched_addresses,
          raised |-> "ValidationError"]
    ELSE apply_withdrawals_noting_empty(
             apply_withdrawal(s, withdrawals[i]), withdrawals, i + 1,
             IF account_is_empty(apply_withdrawal(s, withdrawals[i]),
                                 withdrawals[i].address)
             THEN Append(touched_addresses, withdrawals[i].address)
             ELSE touched_addresses)

\* the second loop without its test of emptiness
RECURSIVE delete_noted_addresses(_, _, _)
delete_noted_addresses(s, touched_addresses, i) ==
    IF i > Len(touched_addresses) THEN s
    ELSE delete_noted_addresses(delete_account(s, touched_addresses[i]),
                                touched_addresses, i + 1)

\* the end of apply_all_withdrawals that runs the deletion pass also after a
\* withdrawal was found invalid
after_withdrawals_deletes_after_raise(r) ==
    [state |-> delete_empty_addresses(r.state, r.touched_addresses, 1),
     raised |-> r.raised]

\* the end of apply_all_withdrawals after its first loop returned r
after_withdrawals(r) ==
    IF r.raised # "none" THEN [state |-> r.state, raised |-> r.raised]
    ELSE [state |-> delete_empty_addresses(r.state, r.touched_addresses, 1),
          raised |-> "none"]

\* apply_all_withdrawals that decides which addresses to delete while it still
\* applies the withdrawals
apply_all_withdrawals_deletes_early(s, withdrawals) ==
    LET r == apply_withdrawals_noting_empty(s, withdrawals, 1, <<>>)
    IN  IF r.raised # "none" THEN [state |-> r.state, raised |-> r.raised]
        ELSE [state |-> delete_noted_addresses(r.state, r.touched_addresses, 1),
              raised |-> "none"]

\* VM.apply_all_withdrawals
apply_all_withdrawals(s, withdrawals) ==
    after_withdrawals(apply_withdrawals_from(s, withdrawals, 1, <<>>))

\* the loop over block.uncles of _assign_block_rewards, from uncle i on
RECURSIVE assign_uncle_rewards(_, _, _)
assign_uncle_rewards(s, blk, i) ==
    IF i > Len(blk.uncles) THEN s
    ELSE assign_uncle_rewards(
             delta_balance(s, blk.uncles[i].coinbase,
                           get_uncle_reward(blk, blk.uncles[i])),
             blk, i + 1)

\* _assign_block_rewards that credits the coinbase only a nonzero reward
assign_block_rewards_skips_zero(s, blk) ==
    LET block_reward == get_block_reward(blk) + Len(blk.uncles) * get_nephew_reward(blk)
    IN  assign_uncle_rewards(
            IF block_reward # 0 THEN delta_balance(s, blk.coinbase, block_reward) ELSE s,
            blk, 1)

\* _assign_block_rewards that pays the coinbase nothing for the uncles
assign_block_rewards_no_nephew_reward(s, blk) ==
    assign_uncle_rewards(delta_balance(s, blk.coinbase, get_block_reward(blk)), blk, 1)

\* VM._assign_block_rewards
assign_block_rewards(s, blk) ==
    LET block_reward == get_block_reward(blk) + Len(blk.uncles) * get_nephew_reward(blk)
    IN  assign_uncle_rewards(delta_balance(s, blk.coinbase, block_reward), blk, 1)

extra_data_max_bytes == 32

MAX_UNCLES == 2

\* TRUE iff validate_gas_limit returns without raising: the gas limit drifts
\* from the parent's by parent_gas_limit / 1024 at most
validate_gas_limit(gas_limit, parent_gas_limit) ==
    LET diff == IF gas_limit > parent_gas_limit THEN gas_limit - parent_gas_limit
                ELSE parent_gas_limit - gas_limit
    IN  diff <= parent_gas_limit \div 1024

\* TRUE iff VM.validate_gas returns without raising
validate_gas(h, parent_header) ==
    validate_gas_limit(h.gas_limit, parent_header.gas_limit)

\* validate_header without the test of the timestamp
validate_header_any_timestamp(h, parent_header) ==
    /\ ~parent_header.is_none
    /\ h.extra_data <= extra_data_max_bytes
    /\ validate_gas(h, parent_header)
    /\ h.block_number = parent_header.block_number + 1

\* TRUE iff VM.validate_header returns without raising ValidationError
validate_header(h, parent_header) ==
    /\ ~parent_header.is_none
    /\ h.extra_data <= extra_data_max_bytes
    /\ validate_gas(h, parent_header)
    /\ h.block_number = parent_header.block_number + 1
    /\ h.timestamp > parent_header.timestamp

\* get_parent_header(block.header, self.chaindb)
get_parent_header(h, db) == db.parent

\* block.is_genesis
is_genesis(blk) == blk.number = 0

\* validate_block that raises nothing
validate_block_accepts_all(blk, db, s) == TRUE

\* TRUE iff VM.validate_block returns without raising ValidationError
validate_block(blk, db, s) ==
    /\ IF is_genesis(blk)
       THEN blk.header.extra_data <= extra_data_max_bytes
       ELSE validate_header(blk.header, get_parent_header(blk.header, db))
    /\ make_trie_root(blk.transactions) = blk.header.transaction_root
    /\ ~(Len(blk.uncles) > MAX_UNCLES)
    /\ (blk.header.state_root \in db.roots
        \/ make_state_root(s) = blk.header.state_root)
    /\ keccak_rlp(blk.uncles) = blk.header.uncles_hash

\* set_block_transactions_and_withdrawals that leaves the receipt root of the
\* header as it was
set_block_transactions_and_withdrawals_keeps_receipt_root(base_block, new_header, transactions, receipts_, withdrawals) ==
    [base_block EXCEPT
        !.transactions = transactions,
        !.withdrawals = IF withdrawals # <<>> THEN withdrawals ELSE @,
        !.header = [@ EXCEPT
            !.gas_used = new_header.gas_used,
            !.transaction_root = make_trie_root(transactions),
            !.receipt_root = @,
            !.withdrawals_root = IF withdrawals # <<>>
                                 THEN make_trie_root(withdrawals) ELSE @]]

\* VM.set_block_transactions_and_withdrawals: new_header is the header of the
\* base block with the gas used by the transactions; withdrawals is empty when
\* import_block passes None
set_block_transactions_and_withdrawals(base_block, new_header, transactions, receipts_, withdrawals) ==
    [base_block EXCEPT
        !.transactions = transactions,
        !.withdrawals = IF withdrawals # <<>> THEN withdrawals ELSE @,
        !.header = [@ EXCEPT
            !.gas_used = new_header.gas_used,
            !.transaction_root = make_trie_root(transactions),
            !.receipt_root = make_trie_root(receipts_),
            !.withdrawals_root = IF withdrawals # <<>>
                                 THEN make_trie_root(withdrawals) ELSE @]]

\* state.persist(): the accounts are written to the database, which then holds
\* their root
persist(db, s) ==
    [db EXCEPT !.accounts = s.acct, !.roots = @ \cup {state_root_of(s.acct)}]

\* self.state.state_root: the root of the accounts the database holds
state_root(db) == state_root_of(db.accounts)

\* finalize_block that keeps what the rewards did when EVMMissingData is raised
finalize_block_missing_data_no_revert(s, token) == s

\* finalize_block: except EVMMissingData: self.state.revert(snapshot)
finalize_block_missing_data(s, token) == revert(s, token)

\* the state the VM holds when import_block is called: that of the parent, or
\* one a call of execute_bytecode has written to
VMStates ==
    {[acct |-> a, journal |-> <<>>, locked |-> 0, faults |-> {}] :
        a \in {InitAccounts, [InitAccounts EXCEPT !.storage["ctr"] = 0]}}

Contexts ==
    {[fork |-> f, coinbase |-> cb, base_fee_per_gas |-> IF f = "London" THEN 1 ELSE 0] :
        f \in Forks, cb \in Coinbases}

Init ==
    /\ ctx \in Contexts
    /\ state \in VMStates
    /\ header \in {[gas_used |-> g, gas_limit |-> 121000] : g \in {0, 21000}}
    /\ pc = "import_block"
    /\ txIndex = 0
    /\ tx = NoTx
    /\ snap = 0
    /\ msg = NoMessage
    /\ comp = NoComputation
    /\ fin = NoLocals
    /\ receipt = NoReceipt
    /\ receipts = <<>>
    /\ hooks = <<>>
    /\ calls = <<>>
    /\ pre = InitAccounts
    /\ debited = InitAccounts
    /\ executed = InitAccounts
    /\ built = NoComputation
    /\ outcome = NoOutcome
    /\ chaindb = InitChaindb
    /\ phases = <<>>
    /\ frame = NoFrame
    /\ block = NoBlock

\* import_block up to the call of apply_all_transactions: a block of another
\* number than the VM's is refused; otherwise the header starts with no gas
\* used and the state is built anew on the state root of the header
ImportBlock ==
    /\ pc = "import_block"
    /\ \E same_number \in BOOLEAN :
          IF same_number
          THEN /\ header' = [header EXCEPT !.gas_used = 0]
               /\ state' = [acct |-> chaindb.accounts, journal |-> <<>>,
                            locked |-> 0, faults |-> {}]
               /\ block' = [block EXCEPT !.coinbase = ctx.coinbase]
               /\ phases' = Append(phases, "rebuild_state")
               /\ pc' = "loop"
          ELSE /\ pc' = "invalid"
               /\ UNCHANGED <<header, state, block, phases>>
    /\ UNCHANGED <<frame, chaindb, outcome, ctx, txIndex, tx, snap, msg, comp, fin, receipt,
                   receipts, hooks, calls, pre, debited, executed, built>>

\* apply_all_transactions, loop head: take the snapshot, call apply_transaction
BeginTransaction ==
    /\ pc = "loop"
    /\ txIndex < MaxTxs
    /\ \E t \in Transactions(state, ctx) : tx' = t
    /\ snap' = snapshot_token(state)
    /\ state' = snapshot(state)
    /\ pre' = state.acct
    /\ pc' = apply_transaction_steps[1]
    /\ calls' = <<>>
    /\ UNCHANGED <<frame, chaindb, phases, block, outcome, ctx, header, txIndex, msg, comp, fin, receipt, receipts, hooks,
                   debited, executed, built>>

\* apply_transaction: self.validate_transaction_against_header(header, transaction)
ValidateTransactionAgainstHeader ==
    /\ pc = "validate_transaction_against_header"
    /\ calls' = Called(pc)
    /\ pc' = IF validate_frontier_transaction_against_header(header, tx)
             THEN StepAfter(pc) ELSE "rejected_header"
    /\ UNCHANGED <<frame, chaindb, phases, block, outcome, ctx, state, header, txIndex, tx, snap, msg, comp, fin, receipt,
                   receipts, hooks, pre, debited, executed, built>>

\* apply_transaction: self.state.lock_changes()
LockChanges ==
    /\ pc = "lock_changes"
    /\ calls' = Called(pc)
    /\ state' = lock_changes(state)
    /\ pc' = StepAfter(pc)
    /\ UNCHANGED <<frame, chaindb, phases, block, outcome, ctx, header, txIndex, tx, snap, msg, comp, fin, receipt,
                   receipts, hooks, pre, debited, executed, built>>

\* the executor: self.validate_transaction(transaction)
ValidateTransaction ==
    /\ pc = "validate_transaction"
    /\ calls' = Called(pc)
    /\ pc' = IF validate_transaction(state, ctx, tx)
             THEN StepAfter(pc) ELSE "rejected_transaction"
    /\ UNCHANGED <<frame, chaindb, phases, block, outcome, ctx, state, header, txIndex, tx, snap, msg, comp, fin, receipt,
                   receipts, hooks, pre, debited, executed, built>>

\* the executor: message = self.build_evm_message(transaction)
BuildEvmMessage ==
    /\ pc = "build_evm_message"
    /\ calls' = Called(pc)
    /\ LET r == build_evm_message(state, ctx, tx)
       IN  /\ state' = r.state
           /\ msg' = r.message
           /\ debited' = r.state.acct
    /\ pc' = StepAfter(pc)
    /\ UNCHANGED <<frame, chaindb, phases, block, outcome, ctx, header, txIndex, tx, snap, comp, fin, receipt, receipts,
                   hooks, pre, executed, built>>

\* the executor: computation = self.build_computation(message, transaction)
BuildComputation ==
    /\ pc = "build_computation"
    /\ calls' = Called(pc)
    /\ \E o \in Outcomes(ctx, msg) :
          \E r \in {build_computation(state, ctx, msg, o)} :
              /\ state' = r.state
              /\ comp' = r.computation
              /\ executed' = r.state.acct
              /\ built' = r.computation
              /\ outcome' = o
              /\ pc' = IF r.raised = "none" THEN StepAfter(pc) ELSE "vm_error"
    /\ UNCHANGED <<frame, chaindb, phases, block, ctx, header, txIndex, tx, snap, msg, fin, receipt, receipts,
                   hooks, pre, debited>>

\* the executor: self.finalize_computation(transaction, computation)
FinalizeComputation ==
    /\ pc = "finalize_computation"
    /\ calls' = Called(pc)
    /\ fin' = finalize_locals(ctx, tx, comp)
    /\ state' = finalize_computation(state, ctx, tx, comp)
    /\ comp' = finalized_computation(ctx, comp)
    /\ pc' = StepAfter(pc)
    /\ UNCHANGED <<frame, chaindb, phases, block, outcome, ctx, header, txIndex, tx, snap, msg, receipt, receipts, hooks,
                   pre, debited, executed, built>>

\* apply_transaction: receipt = self.make_receipt(header, transaction, ...)
MakeReceipt ==
    /\ pc = "make_receipt"
    /\ calls' = Called(pc)
    /\ receipt' = make_receipt(header, tx, comp, fin)
    /\ pc' = StepAfter(pc)
    /\ UNCHANGED <<frame, chaindb, phases, block, outcome, ctx, state, header, txIndex, tx, snap, msg, comp, fin, receipts,
                   hooks, pre, debited, executed, built>>

\* apply_transaction: self.validate_receipt(receipt); return receipt, computation
ValidateReceipt ==
    /\ pc = "validate_receipt"
    /\ calls' = Called(pc)
    /\ pc' = IF validate_receipt(receipt) THEN StepAfter(pc) ELSE "rejected_receipt"
    /\ UNCHANGED <<frame, chaindb, phases, block, outcome, ctx, state, header, txIndex, tx, snap, msg, comp, fin, receipt,
                   receipts, hooks, pre, debited, executed, built>>

\* the states in which the executor can find data missing: between its steps,
\* or inside apply_message with the snapshot of apply_message open
StatesInFlight ==
    {state} \cup
    (IF pc = "build_computation" /\ ~msg.is_create
     THEN {apply_message_open(state, ctx, msg, o).state : o \in Outcomes(ctx, msg)}
     ELSE {})

\* an except clause that raises again without reverting
missing_data_handler_no_revert(s, token) == s

\* the except EVMMissingData clause of apply_all_transactions
missing_data_handler(s, token) == revert(s, token)

\* apply_all_transactions: apply_transaction raises EVMMissingData; the handler
\* reverts the snapshot of this transaction and raises again
RaiseMissingData ==
    /\ pc \in ExecutorSteps
    /\ \E s \in StatesInFlight : state' = missing_data_handler(s, snap)
    /\ pc' = "raised"
    /\ UNCHANGED <<frame, chaindb, phases, block, outcome, ctx, header, txIndex, tx, snap, msg, comp, fin, receipt,
                   receipts, hooks, calls, pre, debited, executed, built>>

\* apply_all_transactions after apply_transaction returned: add the receipt to
\* the header, append receipt and computation, call transaction_applied_hook
AddReceipt ==
    /\ pc = "add_receipt"
    /\ header' = add_receipt_to_header(header, receipt)
    /\ receipts' = Append(receipts, receipt)
    /\ hooks' = Append(hooks, txIndex)
    /\ txIndex' = txIndex + 1
    /\ pc' = "loop"
    /\ tx' = NoTx
    /\ msg' = NoMessage
    /\ comp' = NoComputation
    /\ fin' = NoLocals
    /\ receipt' = NoReceipt
    /\ calls' = <<>>
    /\ pre' = state.acct
    /\ debited' = state.acct
    /\ executed' = state.acct
    /\ built' = NoComputation
    /\ outcome' = NoOutcome
    /\ block' = [block EXCEPT !.transactions = Append(@, txIndex)]
    /\ UNCHANGED <<frame, chaindb, phases, ctx, state, snap>>

\* apply_all_transactions: the list is exhausted, return
Finish ==
    /\ pc = "loop"
    /\ pc' = "done"
    /\ phases' = Append(phases, "apply_all_transactions")
    /\ UNCHANGED <<frame, chaindb, block, outcome, ctx, state, header, txIndex, tx, snap, msg,
                   comp, fin, receipt, receipts, hooks, calls, pre, debited, executed,
                   built>>

\* import_block: withdrawals = block.withdrawals if the block has the field;
\* if withdrawals: self.apply_all_withdrawals(block.withdrawals)
ApplyAllWithdrawals ==
    /\ pc = "done"
    /\ \E w \in BlockWithdrawals(ctx) :
          /\ block' = [block EXCEPT !.has_withdrawals = w.has_withdrawals,
                                    !.withdrawals = w.withdrawals]
          /\ IF w.withdrawals # <<>>
             THEN \E r \in {apply_all_withdrawals(state, w.withdrawals)} :
                      /\ state' = r.state
                      /\ phases' = Append(phases, "apply_all_withdrawals")
                      /\ pc' = IF r.raised = "none"
                               THEN "set_block_transactions_and_withdrawals"
                               ELSE "invalid"
             ELSE /\ pc' = "set_block_transactions_and_withdrawals"
                  /\ UNCHANGED <<state, phases>>
    /\ UNCHANGED <<frame, chaindb, outcome, ctx, header, txIndex, tx, snap, msg, comp, fin,
                   receipt, receipts, hooks, calls, pre, debited, executed, built>>

\* import_block: filled_block = self.set_block_transactions_and_withdrawals(...)
SetBlockTransactionsAndWithdrawals ==
    /\ pc = "set_block_transactions_and_withdrawals"
    /\ block' = set_block_transactions_and_withdrawals(
                    block, header, block.transactions, receipts,
                    IF block.has_withdrawals THEN block.withdrawals ELSE <<>>)
    /\ phases' = Append(phases, "set_roots")
    /\ pc' = "finalize_block"
    /\ UNCHANGED <<frame, chaindb, outcome, ctx, state, header, txIndex, tx, snap, msg, comp,
                   fin, receipt, receipts, hooks, calls, pre, debited, executed,
                   built>>

\* mine_block: pack_block, then finalize_block up to its snapshot; a block
\* after the genesis block takes a snapshot for the rewards.  What the block
\* handed to import_block says of its number, uncles, timestamp and extra_data
\* is read here.
FinalizeBlock ==
    /\ pc = "finalize_block"
    /\ \E blk \in Blocks(ctx) :
          /\ block' = [block EXCEPT !.number = blk.number,
                                    !.coinbase = blk.coinbase,
                                    !.uncles = blk.uncles,
                                    !.block_reward = blk.block_reward,
                                    !.header.block_number = blk.number,
                                    !.header.timestamp = blk.timestamp,
                                    !.header.extra_data = blk.extra_data,
                                    !.header.uncles_hash = keccak_rlp(blk.uncles)]
          /\ IF blk.number > 0
             THEN /\ snap' = snapshot_token(state)
                  /\ state' = snapshot(state)
                  /\ pc' = "assign_block_rewards"
             ELSE /\ pc' = "persist"
                  /\ UNCHANGED <<snap, state>>
    /\ pre' = state.acct
    /\ phases' = Append(phases, "finalize_block")
    /\ UNCHANGED <<frame, chaindb, outcome, ctx, header, txIndex, tx, msg, comp, fin, receipt,
                   receipts, hooks, calls, debited, executed, built>>

\* finalize_block: self._assign_block_rewards(block), commit of the snapshot
AssignBlockRewards ==
    /\ pc = "assign_block_rewards"
    /\ state' = commit(assign_block_rewards(state, block), snap)
    /\ phases' = Append(phases, "assign_block_rewards")
    /\ pc' = "persist"
    /\ UNCHANGED <<frame, chaindb, block, outcome, ctx, header, txIndex, tx, snap, msg, comp,
                   fin, receipt, receipts, hooks, calls, pre, debited, executed,
                   built>>

\* finalize_block: _assign_block_rewards raises EVMMissingData, before it has
\* credited anything or after it has credited the coinbase; the snapshot is
\* reverted and the exception leaves finalize_block
RaiseMissingDataInRewards ==
    /\ pc = "assign_block_rewards"
    /\ \E credited \in {state, assign_block_rewards(state, [block EXCEPT !.uncles = <<>>])} :
          state' = finalize_block_missing_data(credited, snap)
    /\ phases' = Append(phases, "assign_block_rewards")
    /\ pc' = "rewards_raised"
    /\ UNCHANGED <<frame, chaindb, block, outcome, ctx, header, txIndex, tx, snap, msg, comp,
                   fin, receipt, receipts, hooks, calls, pre, debited, executed,
                   built>>

\* finalize_block: self.state.persist(), then the block is copied with
\* header.state_root = self.state.state_root
Persist ==
    /\ pc = "persist"
    /\ chaindb' = persist(chaindb, state)
    /\ block' = [block EXCEPT !.header.state_root = state_root(persist(chaindb, state))]
    /\ phases' = phases \o <<"persist", "state_root">>
    /\ pc' = "validate_block"
    /\ UNCHANGED <<frame, outcome, ctx, state, header, txIndex, tx, snap, msg, comp, fin,
                   receipt, receipts, hooks, calls, pre, debited, executed, built>>

\* mine_block: self.validate_block(block_result.block); return block_result
ValidateBlock ==
    /\ pc = "validate_block"
    /\ phases' = Append(phases, "validate_block")
    /\ pc' = IF validate_block(block, chaindb, state) THEN "imported" ELSE "invalid"
    /\ UNCHANGED <<frame, chaindb, block, outcome, ctx, state, header, txIndex, tx, snap, msg,
                   comp, fin, receipt, receipts, hooks, calls, pre, debited, executed,
                   built>>

Next ==
    \/ ImportBlock
    \/ BeginTransaction
    \/ ValidateTransactionAgainstHeader
    \/ LockChanges
    \/ ValidateTransaction
    \/ BuildEvmMessage
    \/ BuildComputation
    \/ FinalizeComputation
    \/ MakeReceipt
    \/ ValidateReceipt
    \/ RaiseMissingData
    \/ AddReceipt
    \/ Finish
    \/ ApplyAllWithdrawals
    \/ SetBlockTransactionsAndWithdrawals
    \/ FinalizeBlock
    \/ AssignBlockRewards
    \/ RaiseMissingDataInRewards
    \/ Persist
    \/ ValidateBlock

Spec == Init /\ [][Next]_vars

-----------------------------------------------------------------------------
(* Message application on its own: apply_message and apply_create_message on  *)
(* a message whose code spawns child calls and creates                        *)

\* what one frame can do: OutOfGas leaves no gas and no output
Frames(gas, outputs, kids) ==
    {o \in [error : {"none", "OutOfGas"}, gas_left : gas, effect : {"none", "sstore"},
            output : outputs, calls : kids] :
        o.error = "OutOfGas" => (o.gas_left = 0 /\ o.output = NoCode)}

RECURSIVE ChildCalls(_)

\* the outcomes of a child frame that nests at most d further levels of calls
CallTrees(d, is_create) ==
    Frames({0, 60000}, IF is_create THEN {NoCode, 100} ELSE {NoCode}, ChildCalls(d))

\* the child calls a frame may spawn with d levels of nesting left: none, a
\* CALL of the contract or a CREATE, with or without value
ChildCalls(d) ==
    {<<>>} \cup
    (IF d = 0 THEN {}
     ELSE {<<[to |-> "ctr", value |-> v, outcome |-> co]>> :
              v \in {0, 1}, co \in CallTrees(d - 1, FALSE)}
          \cup
          {<<[to |-> CREATE_CONTRACT_ADDRESS, value |-> v, outcome |-> co]>> :
              v \in {0, 1}, co \in CallTrees(d - 1, TRUE)})

\* the outcomes of the top frame: a create may return code at and around the
\* EIP-170 limit, with or without the gas for its deposit
TopOutcomes(m) ==
    IF m.is_create
    THEN Frames({0, 60000, EIP170_CODE_SIZE_LIMIT * GAS_CODEDEPOSIT - 1,
                 EIP170_CODE_SIZE_LIMIT * GAS_CODEDEPOSIT},
                {NoCode, 100, EIP170_CODE_SIZE_LIMIT, EIP170_CODE_SIZE_LIMIT + 1},
                ChildCalls(MaxNesting))
    ELSE Frames({0, 60000}, {NoCode}, ChildCalls(MaxNesting))

TopMessages ==
    {Message(5000000, "ctr", "alice", v, NoCode, InitAccounts.code["ctr"], "none") :
        v \in {0, 1}}
    \cup
    {Message(5000000, CREATE_CONTRACT_ADDRESS, "alice", v, NoCode, 10,
             generate_contract_address("alice", 0)) : v \in {0, 1}}

\* the state a transaction executor hands to build_computation: the snapshot
\* of the transaction is open and locked
InitCalls ==
    /\ ctx \in {c \in Contexts : c.coinbase = "bob"}
    /\ msg \in TopMessages
    /\ state = lock_changes(snapshot([acct |-> InitAccounts, journal |-> <<>>,
                                      locked |-> 0, faults |-> {}]))
    /\ pc = IF msg.is_create THEN "apply_create_message" ELSE "apply_message"
    /\ header = [gas_used |-> 0, gas_limit |-> 121000]
    /\ txIndex = 0
    /\ tx = NoTx
    /\ snap = 1
    /\ comp = NoComputation
    /\ fin = NoLocals
    /\ receipt = NoReceipt
    /\ receipts = <<>>
    /\ hooks = <<>>
    /\ calls = <<>>
    /\ pre = InitAccounts
    /\ debited = InitAccounts
    /\ executed = InitAccounts
    /\ built = NoComputation
    /\ outcome = NoOutcome
    /\ chaindb = InitChaindb
    /\ phases = <<>>
    /\ frame = NoFrame
    /\ block = NoBlock

\* computation_class.apply_message(state, message, transaction_context)
ApplyMessage ==
    /\ pc = "apply_message"
    /\ \E o \in TopOutcomes(msg) :
          \E r \in {apply_message(state, ctx, msg, o)} :
              /\ state' = r.state
              /\ comp' = r.computation
              /\ outcome' = o
              /\ pc' = IF r.raised = "none" THEN "returned" ELSE "vm_error"
    /\ UNCHANGED <<frame, chaindb, phases, block, ctx, header, txIndex, tx, snap, msg, fin, receipt, receipts,
                   hooks, calls, pre, debited, executed, built>>

\* computation_class.apply_create_message(state, message, transaction_context)
ApplyCreateMessage ==
    /\ pc = "apply_create_message"
    /\ \E o \in TopOutcomes(msg) :
          \E r \in {apply_create_message(state, ctx, msg, o)} :
              /\ state' = r.state
              /\ comp' = r.computation
              /\ outcome' = o
              /\ pc' = IF r.raised = "none" THEN "returned" ELSE "vm_error"
    /\ UNCHANGED <<frame, chaindb, phases, block, ctx, header, txIndex, tx, snap, msg, fin, receipt, receipts,
                   hooks, calls, pre, debited, executed, built>>

NextCalls == ApplyMessage \/ ApplyCreateMessage

SpecCalls == InitCalls /\ [][NextCalls]_vars

----
\* VM.in_costless_state: the scope "with vm.in_costless_state() as state" with
\* a body that changes the yielded state and either finishes or raises

\* the header the costless state is built on: the base fee is 0 when the header
\* has one (London)
free_header(c) == IF IsLondon(c) THEN [c EXCEPT !.base_fee_per_gas = 0] ELSE c

InitCostless ==
    /\ ctx \in Contexts
    /\ state = [acct |-> InitAccounts, journal |-> <<>>, locked |-> 0, faults |-> {}]
    /\ pc = "in_costless_state"
    /\ header = [gas_used |-> 0, gas_limit |-> 121000]
    /\ txIndex = 0
    /\ tx = NoTx
    /\ snap = 0
    /\ msg = NoMessage
    /\ comp = NoComputation
    /\ fin = NoLocals
    /\ receipt = NoReceipt
    /\ receipts = <<>>
    /\ hooks = <<>>
    /\ calls = <<>>
    /\ pre = InitAccounts
    /\ debited = InitAccounts
    /\ executed = InitAccounts
    /\ built = NoComputation
    /\ outcome = NoOutcome
    /\ chaindb = InitChaindb
    /\ phases = <<>>
    /\ frame = NoFrame
    /\ block = NoBlock

\* in_costless_state up to its yield: the state is built on the free header and
\* a snapshot of it is taken
EnterCostlessState ==
    /\ pc = "in_costless_state"
    /\ ctx' = free_header(ctx)
    /\ snap' = snapshot_token(state)
    /\ state' = snapshot(state)
    /\ pre' = state.acct
    /\ pc' = "body"
    /\ UNCHANGED <<frame, chaindb, phases, block, outcome, header, txIndex, tx, msg, comp, fin, receipt,
                   receipts, hooks, calls, debited, executed, built>>

\* one change the body of the scope makes to the yielded state
CostlessBody ==
    /\ pc = "body"
    /\ txIndex < MaxBodySteps
    /\ \E a \in Addr :
          \/ state' = delta_balance(state, a, 1)
          \/ state' = increment_nonce(state, a)
    /\ txIndex' = txIndex + 1
    /\ UNCHANGED <<frame, chaindb, phases, block, outcome, ctx, header, pc, tx, snap, msg, comp, fin, receipt,
                   receipts, hooks, calls, pre, debited, executed, built>>

\* the body finishes: the generator resumes after its yield and reverts
CostlessExit ==
    /\ pc = "body"
    /\ state' = revert(state, snap)
    /\ pc' = "scope_exited"
    /\ UNCHANGED <<frame, chaindb, phases, block, outcome, ctx, header, txIndex, tx, snap, msg, comp, fin,
                   receipt, receipts, hooks, calls, pre, debited, executed, built>>

\* the body raises: the exception is raised at the yield, which no try
\* statement encloses, and leaves the generator without the revert
CostlessRaise ==
    /\ pc = "body"
    /\ pc' = "scope_raised"
    /\ UNCHANGED <<frame, chaindb, phases, block, outcome, ctx, state, header, txIndex, tx, snap, msg, comp,
                   fin, receipt, receipts, hooks, calls, pre, debited, executed, built>>

NextCostless == EnterCostlessState \/ CostlessBody \/ CostlessExit \/ CostlessRaise

SpecCostless == InitCostless /\ [][NextCostless]_vars

-----------------------------------------------------------------------------
(* VM.execute_bytecode: the code handed in runs on the state of the VM        *)

\* the messages execute_bytecode builds from its arguments
BytecodeMessages ==
    {Message(5000000, to, "alice", v, NoCode, code, "none") :
        to \in {"ctr", "bob"}, v \in {0, 1}, code \in {NoCode, 50}}

InitBytecode ==
    /\ ctx \in Contexts
    /\ state = [acct |-> InitAccounts, journal |-> <<>>, locked |-> 0, faults |-> {}]
    /\ pc = "execute_bytecode"
    /\ header = [gas_used |-> 0, gas_limit |-> 121000]
    /\ txIndex = 0
    /\ tx = NoTx
    /\ snap = 0
    /\ msg = NoMessage
    /\ comp = NoComputation
    /\ fin = NoLocals
    /\ receipt = NoReceipt
    /\ receipts = <<>>
    /\ hooks = <<>>
    /\ calls = <<>>
    /\ pre = InitAccounts
    /\ debited = InitAccounts
    /\ executed = InitAccounts
    /\ built = NoComputation
    /\ outcome = NoOutcome
    /\ chaindb = InitChaindb
    /\ phases = <<>>
    /\ frame = NoFrame
    /\ block = NoBlock

\* execute_bytecode: build the message, return
\* computation_class.apply_computation(self.state, message, transaction_context)
ExecuteBytecode ==
    /\ pc = "execute_bytecode"
    /\ \E m \in BytecodeMessages :
          \E o \in TopOutcomes(m) :
              \E r \in {apply_computation(state, ctx, m, o)} :
                  /\ msg' = m
                  /\ outcome' = o
                  /\ state' = r.state
                  /\ comp' = r.computation
    /\ pc' = "bytecode_executed"
    /\ UNCHANGED <<frame, chaindb, phases, block, ctx, header, txIndex, tx, snap, fin, receipt, receipts,
                   hooks, calls, pre, debited, executed, built>>

NextBytecode == ExecuteBytecode

SpecBytecode == InitBytecode /\ [][NextBytecode]_vars

-----------------------------------------------------------------------------
(* VM.apply_all_withdrawals on a list of withdrawals                          *)

WithdrawalAddresses == {"bob", "ctr"}

Withdrawal ==
    [address : WithdrawalAddresses, amount : {0, 1}, valid : BOOLEAN]

\* the sum of the amounts of a list, in gwei
RECURSIVE GweiOf(_)
GweiOf(ws) == IF ws = <<>> THEN 0 ELSE ws[1].amount + GweiOf(Tail(ws))

\* the lists of at most n withdrawals that withdraw 2 gwei at most, so that
\* every balance stays below 2^31 wei
RECURSIVE WithdrawalLists(_)
WithdrawalLists(n) ==
    IF n = 0 THEN {<<>>}
    ELSE WithdrawalLists(n - 1)
         \cup {l \in {Append(ws, w) :
                        ws \in {l \in WithdrawalLists(n - 1) : Len(l) = n - 1},
                        w \in Withdrawal} : GweiOf(l) <= 2}

\* the accounts before the withdrawals: bob does not exist, or exists and is
\* empty
WithdrawalAccounts ==
    {InitAccounts, [InitAccounts EXCEPT !.exists = @ \cup {"bob"}]}

InitWithdrawals ==
    /\ ctx \in {c \in Contexts : IsLondon(c)}
    /\ \E a \in WithdrawalAccounts :
          /\ state = [acct |-> a, journal |-> <<>>, locked |-> 0, faults |-> {}]
          /\ pre = a
    /\ \E ws \in WithdrawalLists(MaxWithdrawals) :
          block = [NoBlock EXCEPT !.has_withdrawals = TRUE, !.withdrawals = ws]
    /\ pc = "apply_all_withdrawals"
    /\ header = [gas_used |-> 0, gas_limit |-> 121000]
    /\ txIndex = 0
    /\ tx = NoTx
    /\ snap = 0
    /\ msg = NoMessage
    /\ comp = NoComputation
    /\ fin = NoLocals
    /\ receipt = NoReceipt
    /\ receipts = <<>>
    /\ hooks = <<>>
    /\ calls = <<>>
    /\ debited = InitAccounts
    /\ executed = InitAccounts
    /\ built = NoComputation
    /\ outcome = NoOutcome
    /\ chaindb = InitChaindb
    /\ phases = <<>>
    /\ frame = NoFrame

\* self.apply_all_withdrawals(block.withdrawals)
ApplyAllWithdrawalsOfList ==
    /\ pc = "apply_all_withdrawals"
    /\ \E r \in {apply_all_withdrawals(state, block.withdrawals)} :
          /\ state' = r.state
          /\ pc' = IF r.raised = "none" THEN "withdrawals_applied" ELSE "invalid"
    /\ UNCHANGED <<frame, chaindb, phases, block, outcome, ctx, header, txIndex, tx, snap, msg, comp, fin,
                   receipt, receipts, hooks, calls, pre, debited, executed, built>>

NextWithdrawals == ApplyAllWithdrawalsOfList

SpecWithdrawals == InitWithdrawals /\ [][NextWithdrawals]_vars

-----------------------------------------------------------------------------
(* validate_block called on a block of any content *)

\* what a call of a validation method leaves alone: the variables of the
\* transactions of the block
NoTransactions ==
    /\ header = [gas_used |-> 0, gas_limit |-> 121000]
    /\ txIndex = 0
    /\ tx = NoTx
    /\ snap = 0
    /\ msg = NoMessage
    /\ comp = NoComputation
    /\ fin = NoLocals
    /\ receipts = <<>>
    /\ hooks = <<>>
    /\ calls = <<>>
    /\ pre = InitAccounts
    /\ debited = InitAccounts
    /\ executed = InitAccounts
    /\ built = NoComputation
    /\ outcome = NoOutcome
    /\ phases = <<>>

\* lists of up to three uncles
UncleLists ==
    {SubSeq(<<[coinbase |-> "ctr", number |-> 9], [coinbase |-> "bob", number |-> 8],
              [coinbase |-> "ctr", number |-> 7]>>, 1, n) : n \in 0..3}

\* state roots a header may carry: that of the parent's accounts, that of the
\* accounts after a storage write, and one of accounts no state ever held
StateRoots ==
    {state_root_of(a) : a \in {InitAccounts, [InitAccounts EXCEPT !.storage["ctr"] = 0],
                               [InitAccounts EXCEPT !.storage["ctr"] = 7]}}

\* blocks handed to validate_block: the header may or may not agree with the
\* transactions, the uncles and the state
ValidatedBlocks ==
    {[NoBlock EXCEPT
         !.number = n, !.uncles = u, !.transactions = t,
         !.header = [@ EXCEPT !.block_number = n, !.timestamp = 101,
                              !.extra_data = e,
                              !.transaction_root = make_trie_root(tr),
                              !.state_root = sr,
                              !.uncles_hash = keccak_rlp(uh)]] :
        n \in {0, 10}, u \in UncleLists, t \in {<<>>, <<1>>}, e \in {32, 33},
        tr \in {<<>>, <<1>>}, sr \in StateRoots, uh \in {<<>>} \cup UncleLists}

\* the VM holds a state and a database with the root of the parent; a block is
\* about to be validated
InitValidateBlock ==
    /\ NoTransactions
    /\ frame = NoFrame
    /\ ctx \in {c \in Contexts : IsLondon(c) /\ c.coinbase = "bob"}
    /\ state \in VMStates
    /\ chaindb = InitChaindb
    /\ block \in ValidatedBlocks
    /\ receipt = NoReceipt
    /\ pc = "validate_block"

NextValidateBlock == ValidateBlock

SpecValidateBlock == InitValidateBlock /\ [][NextValidateBlock]_vars

-----------------------------------------------------------------------------
(* validate_header called on a header and a parent header of any content *)

\* parent headers, among them the missing one (None)
ParentHeaders ==
    {[ParentHeader EXCEPT !.is_none = none] : none \in BOOLEAN}

\* headers around the limits validate_header tests: the length of extra_data,
\* the gas limit, the block number and the timestamp
ValidatedHeaders ==
    {[NoHeader EXCEPT !.extra_data = e, !.gas_limit = g, !.block_number = n,
                      !.timestamp = ts] :
        e \in {0, 32, 33}, g \in {120881, 120882, 121000, 121118, 121119},
        n \in {9, 10, 11}, ts \in {99, 100, 101}}

InitValidateHeader ==
    /\ NoTransactions
    /\ frame = NoFrame
    /\ ctx \in {c \in Contexts : IsLondon(c) /\ c.coinbase = "bob"}
    /\ state \in {s \in VMStates : s.acct = InitAccounts}
    /\ \E p \in ParentHeaders : chaindb = [InitChaindb EXCEPT !.parent = p]
    /\ \E h \in ValidatedHeaders : block = [NoBlock EXCEPT !.header = h]
    /\ receipt = NoReceipt
    /\ pc = "validate_header"

\* cls.validate_header(header, parent_header)
ValidateHeader ==
    /\ pc = "validate_header"
    /\ pc' = IF validate_header(block.header, chaindb.parent)
             THEN "header_valid" ELSE "invalid"
    /\ UNCHANGED <<frame, chaindb, phases, block, outcome, ctx, state, header, txIndex, tx,
                   snap, msg, comp, fin, receipt, receipts, hooks, calls, pre,
                   debited, executed, built>>

NextValidateHeader == ValidateHeader

SpecValidateHeader == InitValidateHeader /\ [][NextValidateHeader]_vars

-----------------------------------------------------------------------------
(* validate_uncle called on an uncle and its parent of any content *)

\* the gas limit of the parent that validate_uncle compares with: doubled when
\* the uncle is the first header with a base fee
uncle_parent_gas_limit(uncle, uncle_parent) ==
    IF ~uncle_parent.has_base_fee /\ uncle.has_base_fee
    THEN uncle_parent.gas_limit * 2
    ELSE uncle_parent.gas_limit

\* TRUE iff VM.validate_uncle returns without raising ValidationError
validate_uncle(blk, uncle, uncle_parent) ==
    /\ ~(uncle.block_number >= blk.number)
    /\ ~(uncle.block_number # uncle_parent.block_number + 1)
    /\ ~(uncle.timestamp <= uncle_parent.timestamp)
    /\ ~(uncle.gas_used > uncle.gas_limit)
    /\ validate_gas_limit(uncle.gas_limit,
                          uncle_parent_gas_limit(uncle, uncle_parent))

\* uncle headers, near the block and far below it
UncleHeaders ==
    {[block_number |-> n, timestamp |-> ts, gas_used |-> gu, gas_limit |-> gl,
      has_base_fee |-> bf] :
        n \in {2, 3, 9, 10}, ts \in {100, 101}, gu \in {0, 121000, 242001},
        gl \in {121000, 242000}, bf \in BOOLEAN}

\* parents of uncles
UncleParents ==
    {[is_none |-> FALSE, block_number |-> n, timestamp |-> 100,
      gas_limit |-> 121000, has_base_fee |-> bf] :
        n \in {1, 2, 8, 9}, bf \in BOOLEAN}

\* block 10 names one uncle, whose parent is found in the database
InitValidateUncle ==
    /\ NoTransactions
    /\ frame = NoFrame
    /\ ctx \in {c \in Contexts : IsLondon(c) /\ c.coinbase = "bob"}
    /\ state \in {s \in VMStates : s.acct = InitAccounts}
    /\ \E p \in UncleParents : chaindb = [InitChaindb EXCEPT !.parent = p]
    /\ \E u \in UncleHeaders :
          block = [NoBlock EXCEPT !.number = 10, !.uncles = <<u>>]
    /\ receipt = NoReceipt
    /\ pc = "validate_uncle"

\* cls.validate_uncle(block, uncle, uncle_parent)
ValidateUncle ==
    /\ pc = "validate_uncle"
    /\ pc' = IF validate_uncle(block, block.uncles[1], chaindb.parent)
             THEN "uncle_valid" ELSE "invalid"
    /\ UNCHANGED <<frame, chaindb, phases, block, outcome, ctx, state, header, txIndex, tx,
                   snap, msg, comp, fin, receipt, receipts, hooks, calls, pre,
                   debited, executed, built>>

NextValidateUncle == ValidateUncle

SpecValidateUncle == InitValidateUncle /\ [][NextValidateUncle]_vars

-----------------------------------------------------------------------------
(* validate_receipt called, as apply_transaction calls it, on a receipt of    *)
(* any content                                                                *)

\* log entries with no, one or two topics, a topic twice among them
LogEntries ==
    {[address |-> a, topics |-> ts] :
        a \in {"bob", "ctr"}, ts \in {<<>>, <<1>>, <<1, 2>>, <<2, 2>>}}

\* what a bloom filter may answer "present" for: addresses and serialized
\* topics, of the logs or not
BloomEntries ==
    {Bytes20(a) : a \in {"bob", "ctr"}} \cup {uint32_serialize(t) : t \in 1..3}

\* receipts with up to two logs and any bloom filter
ValidatedReceipts ==
    {[NoReceipt EXCEPT !.status = TRUE, !.logs = ls, !.bloom_filter = bf] :
        ls \in {l \in SUBSET LogEntries : Cardinality(l) <= 2},
        bf \in SUBSET BloomEntries}

\* apply_transaction has made the receipt and is about to validate it
InitValidateReceipt ==
    /\ NoTransactions
    /\ frame = NoFrame
    /\ ctx \in {c \in Contexts : IsLondon(c) /\ c.coinbase = "bob"}
    /\ state \in {s \in VMStates : s.acct = InitAccounts}
    /\ chaindb = InitChaindb
    /\ block = NoBlock
    /\ receipt \in ValidatedReceipts
    /\ pc = "validate_receipt"

NextValidateReceipt == ValidateReceipt

SpecValidateReceipt == InitValidateReceipt /\ [][NextValidateReceipt]_vars

-----------------------------------------------------------------------------
(* get_prev_hashes: the generator of the hashes of the ancestors, consumed    *)
(* to its end                                                                 *)

\* the parent hash of the genesis block
GENESIS_PARENT_HASH == 0

\* the most hashes get_prev_hashes yields
MAX_PREV_HEADER_DEPTH == 256

\* the headers of a chain from height lo to height hi: the block at height n
\* has hash n and names hash n - 1 as its parent; the genesis block has
\* height 1
HeaderChain(lo, hi) == {[hash |-> n, parent_hash |-> n - 1] : n \in lo..hi}

\* TRUE iff get_block_header_by_hash(block_hash, chaindb) finds a header
header_found(block_hash, headers) == \E h \in headers : h.hash = block_hash

get_block_header_by_hash(block_hash, headers) ==
    CHOOSE h \in headers : h.hash = block_hash

\* the generator before its first step
prev_hashes_frame(last_block_hash, headers) ==
    [method |-> "get_prev_hashes", last_block_hash |-> last_block_hash,
     chaindb |-> headers, block_header |-> [hash |-> 0, parent_hash |-> 0],
     i |-> 0, yielded |-> <<>>]

\* one turn of the loop that looks up the parent before it yields
get_prev_hashes_turn_parent_first(f) ==
    IF header_found(f.block_header.parent_hash, f.chaindb)
    THEN [frame |-> [f EXCEPT !.yielded = Append(@, f.block_header.parent_hash),
                              !.i = @ + 1,
                              !.block_header = get_block_header_by_hash(
                                                   f.block_header.parent_hash, f.chaindb)],
          break |-> FALSE]
    ELSE [frame |-> f, break |-> TRUE]

\* one turn of the loop of get_prev_hashes: yield block_header.hash, then try
\* get_parent_header; HeaderNotFound breaks the loop
get_prev_hashes_turn(f) ==
    IF header_found(f.block_header.parent_hash, f.chaindb)
    THEN [frame |-> [f EXCEPT !.yielded = Append(@, f.block_header.hash),
                              !.i = @ + 1,
                              !.block_header = get_block_header_by_hash(
                                                   f.block_header.parent_hash, f.chaindb)],
          break |-> FALSE]
    ELSE [frame |-> [f EXCEPT !.yielded = Append(@, f.block_header.hash),
                              !.i = @ + 1],
          break |-> TRUE]

\* the header of the VM names a parent, and the database holds a stretch of
\* the chain, long or short, with or without that parent
InitPrevHashes ==
    /\ NoTransactions
    /\ ctx \in {c \in Contexts : IsLondon(c) /\ c.coinbase = "bob"}
    /\ state \in {s \in VMStates : s.acct = InitAccounts}
    /\ chaindb = InitChaindb
    /\ block = NoBlock
    /\ receipt = NoReceipt
    /\ \E last_block_hash \in {0, 1, 2, 5, 256, 257, 260}, lo \in {1, 3}, hi \in {4, 260} :
          frame = prev_hashes_frame(last_block_hash, HeaderChain(lo, hi))
    /\ pc = "get_prev_hashes"

\* get_prev_hashes up to its loop: nothing to yield for the genesis block,
\* else the header of last_block_hash is read, which raises HeaderNotFound
\* when the database does not hold it
GetPrevHashes ==
    /\ pc = "get_prev_hashes"
    /\ IF frame.last_block_hash = GENESIS_PARENT_HASH
       THEN pc' = "prev_hashes_done" /\ UNCHANGED frame
       ELSE IF ~header_found(frame.last_block_hash, frame.chaindb)
       THEN pc' = "header_not_found" /\ UNCHANGED frame
       ELSE /\ frame' = [frame EXCEPT !.block_header =
                            get_block_header_by_hash(frame.last_block_hash,
                                                     frame.chaindb)]
            /\ pc' = "prev_hashes_loop"
    /\ UNCHANGED <<chaindb, phases, block, outcome, ctx, state, header, txIndex, tx,
                   snap, msg, comp, fin, receipt, receipts, hooks, calls, pre,
                   debited, executed, built>>

\* for _ in range(MAX_PREV_HEADER_DEPTH): one turn
YieldPrevHash ==
    /\ pc = "prev_hashes_loop"
    /\ frame.i < MAX_PREV_HEADER_DEPTH
    /\ \E r \in {get_prev_hashes_turn(frame)} :
          /\ frame' = r.frame
          /\ pc' = IF r.break THEN "prev_hashes_done" ELSE "prev_hashes_loop"
    /\ UNCHANGED <<chaindb, phases, block, outcome, ctx, state, header, txIndex, tx,
                   snap, msg, comp, fin, receipt, receipts, hooks, calls, pre,
                   debited, executed, built>>

\* the range is used up
EndPrevHashes ==
    /\ pc = "prev_hashes_loop"
    /\ frame.i >= MAX_PREV_HEADER_DEPTH
    /\ pc' = "prev_hashes_done"
    /\ UNCHANGED <<frame, chaindb, phases, block, outcome, ctx, state, header, txIndex,
                   tx, snap, msg, comp, fin, receipt, receipts, hooks, calls, pre,
                   debited, executed, built>>

NextPrevHashes == GetPrevHashes \/ YieldPrevHash \/ EndPrevHashes

\* the consumer keeps asking for the next hash
SpecPrevHashes ==
    InitPrevHashes /\ [][NextPrevHashes]_vars /\ WF_vars(NextPrevHashes)

-----------------------------------------------------------------------------
(* JUMP and JUMPI run on the code of a computation *)

\* opcode values
STOP == 0
JUMP == 86
JUMPI == 87
JUMPDEST == 91
PUSH1 == 96
PUSH2 == 97

\* the bytes of the code streams of the model
CodeBytes == {JUMP, JUMPI, JUMPDEST, PUSH1, PUSH2}

\* code streams of up to n bytes
RECURSIVE Codes(_)
Codes(n) ==
    IF n = 0 THEN {<<>>}
    ELSE Codes(n - 1)
            \cup {Append(c, b) : c \in {d \in Codes(n - 1) : Len(d) = n - 1},
                                 b \in CodeBytes}

\* the number of bytes of immediate data that follow opcode op
push_size(op) == IF op \in PUSH1..PUSH2 THEN op - PUSH1 + 1 ELSE 0

\* the positions of code, from position on, that hold an opcode and not the
\* immediate data of a PUSH; positions count from 0
RECURSIVE opcode_positions(_, _)
opcode_positions(code, position) ==
    IF position >= Len(code) THEN {}
    ELSE {position}
            \cup opcode_positions(code, position + 1 + push_size(code[position + 1]))

\* code.is_valid_opcode(position)
is_valid_opcode(code, position) ==
    position < Len(code) /\ position \in opcode_positions(code, 0)

\* code.peek(): the byte at the program counter, STOP past the end of the code
peek(f) ==
    IF f.program_counter < Len(f.code) THEN f.code[f.program_counter + 1] ELSE STOP

\* the stack without its n topmost items; the top is the last item
popped(stack, n) == SubSeq(stack, 1, Len(stack) - n)

\* jump without the test of the opcode position
jump_to_any_jumpdest_byte(f) ==
    LET jump_dest == f.stack[Len(f.stack)]
        g == [f EXCEPT !.stack = popped(@, 1), !.program_counter = jump_dest]
    IN  IF peek(g) # JUMPDEST THEN [g EXCEPT !.error = "InvalidJumpDestination"]
        ELSE g

\* flow.jump
jump(f) ==
    LET jump_dest == f.stack[Len(f.stack)]
        g == [f EXCEPT !.stack = popped(@, 1), !.program_counter = jump_dest]
    IN  IF peek(g) # JUMPDEST THEN [g EXCEPT !.error = "InvalidJumpDestination"]
        ELSE IF ~is_valid_opcode(g.code, jump_dest)
        THEN [g EXCEPT !.error = "InvalidInstruction"]
        ELSE g

\* flow.jumpi: stack_pop_ints(2) gives the top of the stack as jump_dest and
\* the item below it as check_value
jumpi(f) ==
    LET jump_dest == f.stack[Len(f.stack)]
        check_value == f.stack[Len(f.stack) - 1]
        g == [f EXCEPT !.stack = popped(@, 2)]
        h == [g EXCEPT !.program_counter = jump_dest]
    IN  IF check_value # 0
        THEN IF peek(h) # JUMPDEST THEN [h EXCEPT !.error = "InvalidJumpDestination"]
             ELSE IF ~is_valid_opcode(h.code, jump_dest)
             THEN [h EXCEPT !.error = "InvalidInstruction"]
             ELSE h
        ELSE g

\* the computation has read a JUMP or JUMPI at an opcode position of its code
\* and the program counter is past it; the stack holds the operands, the
\* destination on top
JumpFrame(code, at, jump_dest, check_value) ==
    [method |-> IF code[at + 1] = JUMP THEN "jump" ELSE "jumpi",
     code |-> code, program_counter |-> at + 1, from |-> at + 1,
     stack |-> IF code[at + 1] = JUMP THEN <<7, jump_dest>>
               ELSE <<7, check_value, jump_dest>>,
     operands |-> [jump_dest |-> jump_dest, check_value |-> check_value],
     error |-> "none"]

\* the opcode positions of code that hold a JUMP or a JUMPI
JumpPositions(code) ==
    {p \in opcode_positions(code, 0) : code[p + 1] \in {JUMP, JUMPI}}

InitJump ==
    /\ NoTransactions
    /\ ctx \in {c \in Contexts : IsLondon(c) /\ c.coinbase = "bob"}
    /\ state \in {s \in VMStates : s.acct = InitAccounts}
    /\ chaindb = InitChaindb
    /\ block = NoBlock
    /\ receipt = NoReceipt
    /\ \E code \in Codes(MaxCodeLen) :
          \E at \in JumpPositions(code), jump_dest \in 0..(MaxCodeLen + 1),
             check_value \in {0, 1, 2} :
              /\ code[at + 1] = JUMP => check_value = 1
              /\ frame = JumpFrame(code, at, jump_dest, check_value)
    /\ pc = "opcode"

\* the handler of JUMP
Jump ==
    /\ pc = "opcode"
    /\ frame.method = "jump"
    /\ frame' = jump(frame)
    /\ pc' = "opcode_done"
    /\ UNCHANGED <<chaindb, phases, block, outcome, ctx, state, header, txIndex, tx,
                   snap, msg, comp, fin, receipt, receipts, hooks, calls, pre,
                   debited, executed, built>>

\* the handler of JUMPI
Jumpi ==
    /\ pc = "opcode"
    /\ frame.method = "jumpi"
    /\ frame' = jumpi(frame)
    /\ pc' = "opcode_done"
    /\ UNCHANGED <<chaindb, phases, block, outcome, ctx, state, header, txIndex, tx,
                   snap, msg, comp, fin, receipt, receipts, hooks, calls, pre,
                   debited, executed, built>>

NextJump == Jump \/ Jumpi

SpecJump == InitJump /\ [][NextJump]_vars

-----------------------------------------------------------------------------
(* An opcode built by as_opcode is called on a computation *)

\* computation.consume_gas(amount, reason): OutOfGas when the gas that remains
\* does not cover the amount
consume_gas(f, amount) ==
    IF amount > f.gas_remaining
    THEN [f EXCEPT !.error = "OutOfGas", !.invoked = Append(@, "consume_gas")]
    ELSE [f EXCEPT !.gas_remaining = @ - amount,
                   !.invoked = Append(@, "consume_gas")]

\* flow.stop
stop(f) == [f EXCEPT !.error = "Halt"]

\* flow.jumpdest
jumpdest(f) == f

\* flow.program_counter
program_counter(f) ==
    [f EXCEPT !.stack = Append(@, IF f.program_counter - 1 > 0
                                  THEN f.program_counter - 1 ELSE 0)]

\* flow.gas
gas(f) == [f EXCEPT !.stack = Append(@, f.gas_remaining)]

\* memory.msize
msize(f) == [f EXCEPT !.stack = Append(@, f.memory)]

\* the logic function the opcode was built with
logic_fn(f) ==
    LET g == [f EXCEPT !.invoked = Append(@, "logic_fn")]
    IN  CASE f.mnemonic = "STOP" -> stop(g)
          [] f.mnemonic = "JUMPDEST" -> jumpdest(g)
          [] f.mnemonic = "PC" -> program_counter(g)
          [] f.mnemonic = "GAS" -> gas(g)
          [] f.mnemonic = "MSIZE" -> msize(g)
          [] OTHER -> jump(g)

\* consume_gas applied to what the logic function returned
gas_after_logic(g) == consume_gas(g, g.gas_cost)

\* __call__ that runs the logic function before it pays for it
fast_opcode_call_logic_first(f) == gas_after_logic(logic_fn(f))

\* the logic function applied when consume_gas returned without raising
logic_after_gas(g) == IF g.error # "none" THEN g ELSE logic_fn(g)

\* _FastOpcode.__call__
fast_opcode_call(f) == logic_after_gas(consume_gas(f, f.gas_cost))

\* opcodes with their base gas cost, as as_opcode is given them, about to be
\* called on a computation with little or enough gas; memory is modelled by
\* its length
OpcodeFrames ==
    {[method |-> "opcode", mnemonic |-> m, gas_cost |-> cost,
      gas_remaining |-> g, code |-> <<JUMPDEST, PUSH1, JUMPDEST, JUMP>>,
      program_counter |-> at, stack |-> <<7, jump_dest>>, memory |-> size,
      error |-> "none", invoked |-> <<>>,
      before |-> [gas_remaining |-> g, program_counter |-> at,
                  stack |-> <<7, jump_dest>>]] :
        m \in {"STOP", "JUMPDEST", "PC", "GAS", "MSIZE", "JUMP"},
        cost \in {0, 2, 8}, g \in {0, 1, 2, 7, 8, 9}, at \in {1, 4},
        jump_dest \in 0..2, size \in {0, 32}}

InitOpcode ==
    /\ NoTransactions
    /\ ctx \in {c \in Contexts : IsLondon(c) /\ c.coinbase = "bob"}
    /\ state \in {s \in VMStates : s.acct = InitAccounts}
    /\ chaindb = InitChaindb
    /\ block = NoBlock
    /\ receipt = NoReceipt
    /\ frame \in OpcodeFrames
    /\ pc = "opcode"

\* opcode(computation)
OpcodeCall ==
    /\ pc = "opcode"
    /\ frame.method = "opcode"
    /\ frame' = fast_opcode_call(frame)
    /\ pc' = "opcode_done"
    /\ UNCHANGED <<chaindb, phases, block, outcome, ctx, state, header, txIndex, tx,
                   snap, msg, comp, fin, receipt, receipts, hooks, calls, pre,
                   debited, executed, built>>

NextOpcode == OpcodeCall

SpecOpcode == InitOpcode /\ [][NextOpcode]_vars

-----------------------------------------------------------------------------
(* apply_all_transactions with its lists of receipts and computations *)

\* apply_all_transactions of a VM before London is entered: base_header is the
\* header of the VM with no gas used, receipts and computations are empty; the
\* frame keeps
\* base_header, the computations and the transactions taken from the list
InitAllTransactions ==
    /\ ctx \in {c \in Contexts : c.coinbase = "bob" /\ ~IsLondon(c)}
    /\ state = [acct |-> InitAccounts, journal |-> <<>>, locked |-> 0, faults |-> {}]
    /\ header = [gas_used |-> 0, gas_limit |-> 121000]
    /\ frame = [method |-> "apply_all_transactions",
                base_header |-> [gas_used |-> 0, gas_limit |-> 121000],
                transactions |-> <<>>, computations |-> <<>>]
    /\ pc = "loop"
    /\ txIndex = 0
    /\ tx = NoTx
    /\ snap = 0
    /\ msg = NoMessage
    /\ comp = NoComputation
    /\ fin = NoLocals
    /\ receipt = NoReceipt
    /\ receipts = <<>>
    /\ hooks = <<>>
    /\ calls = <<>>
    /\ pre = InitAccounts
    /\ debited = InitAccounts
    /\ executed = InitAccounts
    /\ built = NoComputation
    /\ outcome = NoOutcome
    /\ chaindb = InitChaindb
    /\ phases = <<>>
    /\ block = [NoBlock EXCEPT !.coinbase = "bob"]

\* apply_all_transactions after apply_transaction returned: result_header and
\* previous_header become the header with the receipt added, receipt and
\* computation are appended, transaction_applied_hook is called
AppendReceiptAndComputation ==
    /\ pc = "add_receipt"
    /\ header' = add_receipt_to_header(header, receipt)
    /\ receipts' = Append(receipts, receipt)
    /\ frame' = [frame EXCEPT !.computations = Append(@, comp),
                              !.transactions = Append(@, tx)]
    /\ hooks' = Append(hooks, txIndex)
    /\ txIndex' = txIndex + 1
    /\ pc' = "loop"
    /\ tx' = NoTx
    /\ msg' = NoMessage
    /\ comp' = NoComputation
    /\ fin' = NoLocals
    /\ receipt' = NoReceipt
    /\ calls' = <<>>
    /\ pre' = state.acct
    /\ debited' = state.acct
    /\ executed' = state.acct
    /\ built' = NoComputation
    /\ outcome' = NoOutcome
    /\ block' = [block EXCEPT !.transactions = Append(@, txIndex)]
    /\ UNCHANGED <<chaindb, phases, ctx, state, snap>>

NextAllTransactions ==
    \/ BeginTransaction
    \/ ValidateTransactionAgainstHeader
    \/ LockChanges
    \/ ValidateTransaction
    \/ BuildEvmMessage
    \/ BuildComputation
    \/ FinalizeComputation
    \/ MakeReceipt
    \/ ValidateReceipt
    \/ RaiseMissingData
    \/ AppendReceiptAndComputation
    \/ Finish

SpecAllTransactions == InitAllTransactions /\ [][NextAllTransactions]_vars

-----------------------------------------------------------------------------
(* finalize_computation of computations that queued accounts for deletion *)

\* the accounts a computation may have queued, each with its beneficiary: none,
\* the contract called, the sender, or both
DeletionQueues ==
    {{}, {<<"ctr", "bob">>}, {<<"alice", "bob">>}, {<<"ctr", "bob">>, <<"alice", "bob">>}}

\* the top-level computations build_computation may hand to
\* finalize_computation for message m
FinishedComputations(m) ==
    {[get_computation(m) EXCEPT !.error = e, !.gas_remaining = g,
                                !.gas_refunded = r, !.accounts_to_delete = q] :
        e \in {"none", "OutOfGas"}, g \in {0, 60000}, r \in {0, 15000},
        q \in DeletionQueues}

\* the executor is about to finalize the computation of a call of the
\* contract; the coinbase is an account of its own, the sender or the contract
InitFinalize ==
    /\ ctx \in {[fork |-> f, coinbase |-> cb,
                 base_fee_per_gas |-> IF f = "London" THEN 1 ELSE 0] :
                    f \in Forks, cb \in {"bob", "alice", "ctr"}}
    /\ \E t \in {u \in Transactions([acct |-> InitAccounts, journal |-> <<>>,
                                     locked |-> 0, faults |-> {}], ctx) :
                     /\ u.to = "ctr"
                     /\ u.nonce = 0
                     /\ u.gas = 100000
                     /\ validate_transaction([acct |-> InitAccounts, journal |-> <<>>,
                                              locked |-> 0, faults |-> {}], ctx, u)} :
          \E r \in {build_evm_message(lock_changes(snapshot(
                        [acct |-> InitAccounts, journal |-> <<>>,
                         locked |-> 0, faults |-> {}])), ctx, t)} :
              /\ tx = t
              /\ msg = r.message
              /\ state = r.state
              /\ debited = r.state.acct
              /\ executed = r.state.acct
              /\ \E cp \in FinishedComputations(r.message) :
                    /\ comp = cp
                    /\ built = cp
    /\ pc = "finalize_computation"
    /\ header = [gas_used |-> 0, gas_limit |-> 121000]
    /\ txIndex = 0
    /\ snap = 1
    /\ fin = NoLocals
    /\ receipt = NoReceipt
    /\ receipts = <<>>
    /\ hooks = <<>>
    /\ calls = <<>>
    /\ pre = InitAccounts
    /\ outcome = NoOutcome
    /\ chaindb = InitChaindb
    /\ phases = <<>>
    /\ frame = NoFrame
    /\ block = NoBlock

NextFinalize == FinalizeComputation

SpecFinalize == InitFinalize /\ [][NextFinalize]_vars

-----------------------------------------------------------------------------
(* apply_message and apply_create_message for messages around the depth limit *)

\* the depths around the limit, and the depth of a top-level message
MessageDepths ==
    {0, STACK_DEPTH_LIMIT - 1, STACK_DEPTH_LIMIT, STACK_DEPTH_LIMIT + 1,
     STACK_DEPTH_LIMIT + 2}

\* messages of alice to the contract and creations, with no value, a value
\* alice can pay and one she cannot
DeepMessages ==
    {[m EXCEPT !.depth = d] :
        m \in {Message(5000000, "ctr", "alice", v, NoCode, InitAccounts.code["ctr"],
                       "none") : v \in {0, 1, 200001}}
              \cup
              {Message(5000000, CREATE_CONTRACT_ADDRESS, "alice", v, NoCode, 10,
                       generate_contract_address("alice", 0)) : v \in {0, 1, 200001}},
        d \in MessageDepths}

InitDepth ==
    /\ ctx \in {c \in Contexts : c.coinbase = "bob"}
    /\ msg \in DeepMessages
    /\ state = lock_changes(snapshot([acct |-> InitAccounts, journal |-> <<>>,
                                      locked |-> 0, faults |-> {}]))
    /\ pc = IF msg.is_create THEN "apply_create_message" ELSE "apply_message"
    /\ header = [gas_used |-> 0, gas_limit |-> 121000]
    /\ txIndex = 0
    /\ tx = NoTx
    /\ snap = 1
    /\ comp = NoComputation
    /\ fin = NoLocals
    /\ receipt = NoReceipt
    /\ receipts = <<>>
    /\ hooks = <<>>
    /\ calls = <<>>
    /\ pre = InitAccounts
    /\ debited = InitAccounts
    /\ executed = InitAccounts
    /\ built = NoComputation
    /\ outcome = NoOutcome
    /\ chaindb = InitChaindb
    /\ phases = <<>>
    /\ frame = NoFrame
    /\ block = NoBlock

\* apply_message(state, message, transaction_context); the frame keeps the
\* exception that left the call
ApplyMessageAtDepth ==
    /\ pc = "apply_message"
    /\ \E o \in TopOutcomes(msg) :
          \E r \in {apply_message(state, ctx, msg, o)} :
              /\ state' = r.state
              /\ comp' = r.computation
              /\ outcome' = o
              /\ frame' = [method |-> "apply_message", raised |-> r.raised]
              /\ pc' = IF r.raised = "none" THEN "returned" ELSE "vm_error"
    /\ UNCHANGED <<chaindb, phases, block, ctx, header, txIndex, tx, snap, msg, fin,
                   receipt, receipts, hooks, calls, pre, debited, executed, built>>

\* apply_create_message(state, message, transaction_context), which calls
\* apply_message
ApplyCreateMessageAtDepth ==
    /\ pc = "apply_create_message"
    /\ \E o \in TopOutcomes(msg) :
          \E r \in {apply_create_message(state, ctx, msg, o)} :
              /\ state' = r.state
              /\ comp' = r.computation
              /\ outcome' = o
              /\ frame' = [method |-> "apply_create_message", raised |-> r.raised]
              /\ pc' = IF r.raised = "none" THEN "returned" ELSE "vm_error"
    /\ UNCHANGED <<chaindb, phases, block, ctx, header, txIndex, tx, snap, msg, fin,
                   receipt, receipts, hooks, calls, pre, debited, executed, built>>

NextDepth == ApplyMessageAtDepth \/ ApplyCreateMessageAtDepth

SpecDepth == InitDepth /\ [][NextDepth]_vars

-----------------------------------------------------------------------------
(* Value transfers: the transactions of a block before London, and            *)
(* apply_message and apply_create_message called with a top-level message     *)
(* whose value the sender may be unable to pay                                *)

InitValue == InitAllTransactions \/ (InitDepth /\ msg.depth = 0)

NextValue == NextAllTransactions \/ NextDepth

SpecValue == InitValue /\ [][NextValue]_vars

-----------------------------------------------------------------------------
(* BerlinTransactionExecutor.build_computation: the access sets of EIP-2929   *)

\* the addresses of the precompiled contracts
Precompiles == {"ecrecover", "sha256", "ripemd160", "identity"}

mark_address_warm(f, a) == [f EXCEPT !.warm_addresses = @ \cup {a}]

mark_storage_warm(f, a, slot) == [f EXCEPT !.warm_slots = @ \cup {<<a, slot>>}]

\* state.is_address_warm: marked in this transaction, or a precompile
is_address_warm(f, a) == a \in f.warm_addresses \/ a \in Precompiles

is_storage_warm(f, a, slot) == <<a, slot>> \in f.warm_slots

\* for slot in slots: mark_storage_warm(address, slot), from slot j on
RECURSIVE mark_slots_warm(_, _, _, _)
mark_slots_warm(f, address, slots, j) ==
    IF j > Len(slots) THEN f
    ELSE mark_slots_warm(mark_storage_warm(f, address, slots[j]), address, slots, j + 1)

\* for address, slots in transaction.access_list, from entry i on
RECURSIVE mark_access_list_warm(_, _, _)
mark_access_list_warm(f, access_list, i) ==
    IF i > Len(access_list) THEN f
    ELSE mark_access_list_warm(
             mark_slots_warm(mark_address_warm(f, access_list[i].address),
                             access_list[i].address, access_list[i].slots, 1),
             access_list, i + 1)

\* the marking that forgets the storage address of the message
warm_access_sets_without_target(f, m, t) ==
    mark_access_list_warm(mark_address_warm(f, t.sender), f.access_list, 1)

\* BerlinTransactionExecutor.build_computation up to its call of
\* super().build_computation; f.access_list is transaction.access_list
warm_access_sets(f, m, t) ==
    mark_access_list_warm(
        mark_address_warm(mark_address_warm(f, t.sender), m.storage_address),
        f.access_list, 1)

\* access lists: none, one address with two slots, two addresses of which one
\* without slots and one named twice
AccessLists ==
    {<<>>,
     <<[address |-> "ctr", slots |-> <<0, 1>>]>>,
     <<[address |-> "bob", slots |-> <<>>], [address |-> "kid", slots |-> <<1>>],
       [address |-> "kid", slots |-> <<2>>]>>}

\* the executor of a London VM has built the message of a valid transaction;
\* the access sets are empty as lock_changes left them
InitWarm ==
    /\ ctx \in {c \in Contexts : IsLondon(c)}
    /\ \E t \in {u \in Transactions([acct |-> InitAccounts, journal |-> <<>>,
                                     locked |-> 0, faults |-> {}], ctx) :
                     u.nonce = 0 /\ u.gas >= 21000 /\ u.max_fee_per_gas = 2 } :
          \E r \in {build_evm_message([acct |-> InitAccounts, journal |-> <<>>,
                                       locked |-> 0, faults |-> {}], ctx, t)} :
              /\ tx = t
              /\ state = r.state
              /\ msg = r.message
              /\ debited = r.state.acct
    /\ \E al \in AccessLists :
          frame = [method |-> "berlin_build_computation", access_list |-> al,
                   warm_addresses |-> {}, warm_slots |-> {}]
    /\ pc = "berlin_build_computation"
    /\ header = [gas_used |-> 0, gas_limit |-> 121000]
    /\ txIndex = 0
    /\ snap = 0
    /\ comp = NoComputation
    /\ fin = NoLocals
    /\ receipt = NoReceipt
    /\ receipts = <<>>
    /\ hooks = <<>>
    /\ calls = <<>>
    /\ pre = InitAccounts
    /\ executed = InitAccounts
    /\ built = NoComputation
    /\ outcome = NoOutcome
    /\ block = NoBlock
    /\ chaindb = InitChaindb
    /\ phases = <<>>

\* build_computation of Berlin: the sender, the storage address and the access
\* list are marked warm
WarmAccessSets ==
    /\ pc = "berlin_build_computation"
    /\ frame' = warm_access_sets(frame, msg, tx)
    /\ pc' = "super_build_computation"
    /\ UNCHANGED <<chaindb, phases, block, outcome, ctx, state, header, txIndex, tx,
                   snap, msg, comp, fin, receipt, receipts, hooks, calls, pre,
                   debited, executed, built>>

\* return super().build_computation(message, transaction): the top-level
\* computation runs
SuperBuildComputation ==
    /\ pc = "super_build_computation"
    /\ \E o \in Outcomes(ctx, msg) :
          \E r \in {build_computation(state, ctx, msg, o)} :
              /\ state' = r.state
              /\ comp' = r.computation
              /\ executed' = r.state.acct
              /\ built' = r.computation
              /\ outcome' = o
              /\ pc' = IF r.raised = "none" THEN "finalize_computation" ELSE "vm_error"
    /\ UNCHANGED <<frame, chaindb, phases, block, ctx, header, txIndex, tx, snap, msg,
                   fin, receipt, receipts, hooks, calls, pre, debited>>

NextWarm == WarmAccessSets \/ SuperBuildComputation

SpecWarm == InitWarm /\ [][NextWarm]_vars

-----------------------------------------------------------------------------
(* Notions the properties below are stated in *)

\* finalize_computation has returned for the current transaction
Finalized == pc \in {"make_receipt", "validate_receipt", "add_receipt"}

RECURSIVE SumOver(_, _)
SumOver(f, S) ==
    IF S = {} THEN 0
    ELSE LET a == CHOOSE x \in S : TRUE IN f[a] + SumOver(f, S \ {a})

TotalBalance(acct) == SumOver(acct.balance, Addr)

\* what finalize_computation added to the balance of account a
Credit(a) == state.acct.balance[a] - executed.balance[a]

\* what build_evm_message took from the sender
GasDebit == pre.balance[tx.sender] - debited.balance[tx.sender]

-----------------------------------------------------------------------------
(* C1: when the top-level computation ends in error, the accounts are those   *)
(* of the snapshot apply_message took, that is the accounts build_evm_message *)
(* left; they differ from the accounts before the transaction by the gas      *)
(* debit and the nonce increment of the sender, and every snapshot taken by   *)
(* the execution is resolved.                                                 *)
C1_ErrorRollsBackExecution ==
    (pc = "finalize_computation" /\ is_error(comp)) =>
        /\ state.acct = debited
        /\ Len(state.journal) = snap
        /\ debited = [pre EXCEPT
                        !.balance[tx.sender] = @ - tx.gas * get_gas_price(ctx, tx),
                        !.nonce[tx.sender] = @ + 1,
                        !.exists = @ \cup {tx.sender}]

\* a call with value whose code wrote storage and then ran out of gas
C1_Witness ==
    /\ pc = "finalize_computation"
    /\ comp.error = "OutOfGas"
    /\ tx.value = 1
    /\ comp.logs # {}

-----------------------------------------------------------------------------
(* C2 as stated: after any error of the top-level computation, REVERT         *)
(* included, nothing is credited back to the sender for remaining gas and the *)
(* coinbase is credited transaction.gas times the tip.                        *)
C2_AnyErrorConsumesAllGas ==
    (Finalized /\ is_error(built)) =>
        /\ fin.gas_remaining = 0
        /\ fin.gas_refund_amount = 0
        /\ fin.transaction_fee = tx.gas * get_tip(ctx, tx)

(* C2 amended: after an error other than REVERT nothing is credited back to   *)
(* the sender and the coinbase is credited transaction.gas times the tip;     *)
(* after REVERT the sender is credited the remaining gas times the gas price  *)
(* and the coinbase (transaction.gas - remaining gas) times the tip.  No      *)
(* refund counter is applied after an error.                                  *)
C2_ErrorConsumesGasButRevert ==
    (Finalized /\ is_error(built)) =>
        LET left == IF built.error = "Revert" THEN built.gas_remaining ELSE 0
            back == left * get_gas_price(ctx, tx)
            fee == (tx.gas - left) * get_tip(ctx, tx)
        IN  /\ fin.gas_refund = 0
            /\ Credit(tx.sender) = back + (IF ctx.coinbase = tx.sender THEN fee ELSE 0)
            /\ Credit(ctx.coinbase) = fee + (IF ctx.coinbase = tx.sender THEN back ELSE 0)

\* a reverted call with gas left, under a positive tip
C2_Witness ==
    /\ Finalized
    /\ built.error = "Revert"
    /\ built.gas_remaining > 0
    /\ get_tip(ctx, tx) > 0
    /\ ctx.coinbase # tx.sender

-----------------------------------------------------------------------------
(* C3: before London the gas debit of build_evm_message (gas x gas_price)     *)
(* equals the refund to the sender ((gas_remaining + refund) x gas_price)     *)
(* plus the fee of the coinbase ((gas - gas_remaining - refund) x gas_price), *)
(* and the sum of all balances is the same before and after the transaction.  *)
C3_GasFullyAccounted ==
    (Finalized /\ ~IsLondon(ctx)) =>
        /\ GasDebit = tx.gas * tx.gas_price
        /\ fin.gas_refund_amount = (fin.gas_remaining + fin.gas_refund) * tx.gas_price
        /\ fin.transaction_fee =
              (tx.gas - fin.gas_remaining - fin.gas_refund) * tx.gas_price
        /\ GasDebit = fin.gas_refund_amount + fin.transaction_fee
        /\ TotalBalance(state.acct) = TotalBalance(pre)

\* a transaction with a positive price, gas left and a refund
C3_Witness ==
    /\ Finalized
    /\ ~IsLondon(ctx)
    /\ tx.gas_price > 0
    /\ fin.gas_remaining > 0
    /\ fin.gas_refund > 0
    /\ fin.transaction_fee > 0

-----------------------------------------------------------------------------
(* C4: in London the gas price is min(max_fee, max_priority + base_fee), the  *)
(* tip min(max_priority, max_fee - base_fee), their difference the base fee;  *)
(* what the sender pays net exceeds the credit of the coinbase by base_fee x  *)
(* final gas used, and the sum of all balances drops by that amount.          *)
C4_LondonBaseFeeBurned ==
    IsLondon(ctx) =>
        LET F == tx.max_fee_per_gas
            P == tx.max_priority_fee_per_gas
            B == ctx.base_fee_per_gas
        IN  /\ tx # NoTx =>
                /\ get_gas_price(ctx, tx) = (IF F <= P + B THEN F ELSE P + B)
                /\ get_tip(ctx, tx) = (IF P <= F - B THEN P ELSE F - B)
                /\ get_gas_price(ctx, tx) - get_tip(ctx, tx) = B
            /\ Finalized =>
                /\ (GasDebit - fin.gas_refund_amount) - fin.transaction_fee
                      = B * fin.gas_used_final
                /\ TotalBalance(pre) - TotalBalance(state.acct) = B * fin.gas_used_final

\* a London transaction capped by max_fee that used gas and earned a tip
C4_Witness ==
    /\ IsLondon(ctx)
    /\ Finalized
    /\ tx.max_fee_per_gas < tx.max_priority_fee_per_gas + ctx.base_fee_per_gas
    /\ fin.transaction_fee > 0
    /\ fin.gas_refund > 0

-----------------------------------------------------------------------------
(* C5: the refund applied is min(accumulated refund, gas_used div Q) with     *)
(* gas_used = transaction.gas - gas_remaining, Q = 2 before London and 5 from *)
(* London; the refund is at most gas_used div Q and the gas charged to the    *)
(* sender at least gas_used - gas_used div Q.                                 *)
C5_RefundCapped ==
    Finalized =>
        LET Q == IF IsLondon(ctx) THEN 5 ELSE 2
            gas_used == tx.gas - get_gas_remaining(built)
            accumulated == get_gas_refund(comp)
        IN  /\ fin.gas_used = gas_used
            /\ fin.gas_refund =
                  (IF accumulated <= gas_used \div Q THEN accumulated
                   ELSE gas_used \div Q)
            /\ fin.gas_refund <= gas_used \div Q
            /\ fin.gas_used_final >= gas_used - gas_used \div Q
            /\ GasDebit - fin.gas_refund_amount
                  = fin.gas_used_final * get_gas_price(ctx, tx)

\* a London transaction whose refund counter exceeds a fifth of the gas used
\* but not a half
C5_Witness ==
    /\ Finalized
    /\ IsLondon(ctx)
    /\ get_gas_refund(comp) > fin.gas_used \div 5
    /\ get_gas_refund(comp) <= fin.gas_used \div 2
    /\ fin.gas_refund = fin.gas_used \div 5

-----------------------------------------------------------------------------
(* C6: before London the refund is computed from the refund counter plus      *)
(* REFUND_SELFDESTRUCT for each account queued for deletion, from London from *)
(* the counter alone; in both cases no account queued for deletion exists     *)
(* after finalize_computation.                                                *)
C6_SelfdestructRefund ==
    Finalized =>
        LET queued == get_accounts_for_deletion(built)
            counter == get_gas_refund(built)
            total == IF IsLondon(ctx) THEN counter
                     ELSE counter + 24000 * Cardinality(queued)
            cap == fin.gas_used \div (IF IsLondon(ctx) THEN 5 ELSE 2)
        IN  /\ fin.gas_refund = Min(total, cap)
            /\ \A d \in queued :
                  /\ d[1] \notin state.acct.exists
                  /\ state.acct.balance[d[1]] = 0
                  /\ state.acct.code[d[1]] = NoCode

\* a selfdestruct before London whose refund is below the cap
C6_Witness ==
    /\ Finalized
    /\ ~IsLondon(ctx)
    /\ get_accounts_for_deletion(built) # {}
    /\ fin.gas_refund = 24000
    /\ \E d \in get_accounts_for_deletion(built) : executed.code[d[1]] # NoCode

-----------------------------------------------------------------------------
(* C7: a transaction that passed validation and was applied leaves the nonce  *)
(* of its sender one above the nonce before it, whether its computation       *)
(* succeeded or failed; a transaction rejected by validation leaves every     *)
(* nonce as it was; between transactions the nonce of the sender is the       *)
(* number of its transactions applied so far.                                 *)
C7_NonceMonotonic ==
    /\ Finalized => state.acct.nonce[tx.sender] = pre.nonce[tx.sender] + 1
    /\ pc \in {"rejected_header", "rejected_transaction"} =>
          state.acct.nonce = pre.nonce
    /\ pc \in {"loop", "done"} =>
          \A a \in Senders : state.acct.nonce[a] = txIndex
    /\ \A a \in Senders : state.acct.nonce[a] >= pre.nonce[a]

\* the second transaction of a sender applied after a failed first one
C7_Witness ==
    /\ Finalized
    /\ txIndex = 1
    /\ is_error(built)
    /\ state.acct.nonce[tx.sender] = 2

-----------------------------------------------------------------------------
(* C8: validate_frontier_transaction raises exactly when the balance of the   *)
(* sender is below gas x gas_price + value or the nonce of the transaction is *)
(* not the nonce of the sender; validate_frontier_transaction_against_header  *)
(* raises exactly when header.gas_used + transaction.gas > header.gas_limit;  *)
(* a rejected transaction changes no balance, nonce, code or storage.         *)
C8_ValidationRejectsExactly ==
    /\ pc \in {"lock_changes", "rejected_header"} =>
          (pc = "rejected_header" <=> header.gas_used + tx.gas > header.gas_limit)
    /\ (/\ pc \in {"build_evm_message", "rejected_transaction"}
        /\ transaction_validate(tx)
        /\ (IsLondon(ctx) => tx.max_fee_per_gas >= ctx.base_fee_per_gas)) =>
          (pc = "rejected_transaction" <=>
              \/ pre.balance[tx.sender] < tx.gas * get_gas_price(ctx, tx) + tx.value
              \/ tx.nonce # pre.nonce[tx.sender])
    /\ pc \in {"rejected_header", "rejected_transaction"} => state.acct = pre

\* a transaction rejected only because the value does not fit beside the gas
C8_Witness ==
    /\ pc = "rejected_transaction"
    /\ transaction_validate(tx)
    /\ tx.nonce = pre.nonce[tx.sender]
    /\ pre.balance[tx.sender] >= tx.gas * get_gas_price(ctx, tx)
    /\ pre.balance[tx.sender] < tx.gas * get_gas_price(ctx, tx) + tx.value

-----------------------------------------------------------------------------
(* C9: apply_transaction validates against the header, locks the changes,     *)
(* executes the transaction, makes the receipt and validates it, in this      *)
(* order; when the validation against the header fails nothing is locked or   *)
(* executed; a receipt is returned only after it was validated.               *)
ApplyTransactionCalls ==
    <<"validate_transaction_against_header", "lock_changes",
      "state.apply_transaction", "make_receipt", "validate_receipt">>

Has(call) == \E i \in 1..Len(calls) : calls[i] = call

C9_ApplyTransactionOrder ==
    /\ \E n \in 0..Len(ApplyTransactionCalls) :
          calls = SubSeq(ApplyTransactionCalls, 1, n)
    /\ tx # NoTx => (Has("lock_changes") <=> state.locked = snap)
    /\ msg # NoMessage => Has("state.apply_transaction")
    /\ receipt # NoReceipt => Has("make_receipt")
    /\ pc = "rejected_header" =>
          /\ calls = <<"validate_transaction_against_header">>
          /\ state.locked < snap
          /\ state.acct = pre
          /\ msg = NoMessage
    /\ pc = "add_receipt" =>
          /\ calls = ApplyTransactionCalls
          /\ validate_receipt(receipt)

\* apply_transaction returns a receipt with a log
C9_Witness ==
    /\ pc = "add_receipt"
    /\ receipt.logs # {}
    /\ txIndex = 1

-----------------------------------------------------------------------------
(* C10: when the transaction at index k raises EVMMissingData the accounts    *)
(* are those before transaction k, the snapshot of transaction k is no longer *)
(* open, the header is the one transactions 0..k-1 produced and receipts and  *)
(* hook calls exist for transactions 0..k-1 only.                             *)
C10_MissingDataReverts ==
    pc = "raised" =>
        /\ state.acct = pre
        /\ Len(state.journal) = snap - 1
        /\ Len(receipts) = txIndex
        /\ hooks = [i \in 1..txIndex |-> i - 1]
        /\ header.gas_used =
              (IF receipts = <<>> THEN 0 ELSE receipts[Len(receipts)].gas_used)

\* the second transaction raises after its sender was debited
C10_Witness ==
    /\ pc = "raised"
    /\ txIndex = 1
    /\ msg # NoMessage
    /\ debited # pre
    /\ tx.gas_price > 0

-----------------------------------------------------------------------------
(* C11: in every run of apply_all_transactions no revert is issued for a      *)
(* snapshot that was taken before the most recent lock_changes call.          *)
C11_NoRevertBeforeLock == "locked" \notin state.faults

-----------------------------------------------------------------------------
(* C12: across nested apply_message and apply_create_message calls every      *)
(* commit and every revert names the most recently taken snapshot that is     *)
(* still open, none names a snapshot already resolved, and when the top call  *)
(* returns every snapshot it or its children took is resolved.                *)
C12_SnapshotsLIFO ==
    /\ "not_lifo" \notin state.faults
    /\ "stale" \notin state.faults
    /\ pc = "returned" => Len(state.journal) = snap

\* a call whose child create failed the code deposit in Spurious Dragon
C12_Witness ==
    /\ pc = "returned"
    /\ ctx.fork = "SpuriousDragon"
    /\ ~msg.is_create
    /\ ~is_error(comp)
    /\ outcome.calls # <<>>
    /\ outcome.calls[1].to = CREATE_CONTRACT_ADDRESS
    /\ outcome.calls[1].outcome.error = "none"
    /\ outcome.calls[1].outcome.output = 100
    /\ outcome.calls[1].outcome.gas_left = 0

-----------------------------------------------------------------------------
(* C13: when an inner call ends in error and the outer call succeeds, the     *)
(* accounts are those the outer call alone produced (its value transfer, its  *)
(* storage write, the nonce it spent on a create) and nothing of the inner    *)
(* call remains; when the outer call ends in error the accounts are those     *)
(* before the outer call, whatever a successful inner call had committed.     *)
InnerCall == outcome.calls[1]

ToggledStorage(v) == IF v = 0 THEN 1 ELSE 0

C13_NestedRollback ==
    (pc = "returned" /\ outcome.calls # <<>>) =>
        /\ (~msg.is_create /\ outcome.error = "none"
               /\ InnerCall.outcome.error = "OutOfGas") =>
              state.acct =
                 [pre EXCEPT
                    !.balance["alice"] = @ - msg.value,
                    !.balance["ctr"] = @ + msg.value,
                    !.storage["ctr"] = IF outcome.effect = "sstore"
                                       THEN ToggledStorage(@) ELSE @,
                    !.nonce["ctr"] = IF InnerCall.to = CREATE_CONTRACT_ADDRESS
                                     THEN @ + 1 ELSE @]
        /\ outcome.error # "none" => state.acct = pre

\* the outer call wrote storage and succeeded; the inner call received value,
\* wrote the same slot and ran out of gas
C13_Witness ==
    /\ pc = "returned"
    /\ ~msg.is_create
    /\ ~is_error(comp)
    /\ outcome.effect = "sstore"
    /\ outcome.calls # <<>>
    /\ InnerCall.to = "ctr"
    /\ InnerCall.value = 1
    /\ InnerCall.outcome.effect = "sstore"
    /\ InnerCall.outcome.error = "OutOfGas"
    /\ state.acct.storage["ctr"] = 0

-----------------------------------------------------------------------------
(* C14: a contract creation of a transaction whose target address has code or *)
(* a nonzero nonce yields a computation with error ContractCreationCollision: *)
(* the accounts are those build_evm_message left (no init code effect, no     *)
(* value transfer, code and nonce of the target as they were) and all the gas *)
(* of the transaction is used.  No other creation ends in this error.         *)
\* build_computation has returned for the current transaction
Built == pc = "finalize_computation" \/ Finalized

Collides ==
    debited.nonce[msg.storage_address] # 0 \/ debited.code[msg.storage_address] # NoCode

C14_CreationCollision ==
    (Built /\ msg.is_create) =>
        /\ Collides <=> built.error = "ContractCreationCollision"
        /\ Collides =>
              /\ executed = debited
              /\ built.gas_refunded = 0 /\ built.logs = {} /\ built.output = NoCode
              /\ get_gas_remaining(built) = 0
              /\ Finalized => (fin.gas_used = tx.gas /\ fin.gas_used_final = tx.gas)

\* a second creation with value and gas to forward hits the address of the first
C14_Witness ==
    /\ Finalized
    /\ built.error = "ContractCreationCollision"
    /\ msg.gas > 0
    /\ tx.value = 1
    /\ fin.gas_used_final = tx.gas

-----------------------------------------------------------------------------
(* C15: in Frontier, when the init code succeeded with output but the gas     *)
(* left is below GAS_CODEDEPOSIT x len(output), the computation has no error, *)
(* its output is empty, no code is stored, no gas is charged and what the     *)
(* init code did, the value transfer included, stays.                         *)
InitCodeSucceeded ==
    Built /\ msg.is_create /\ ~Collides /\ outcome.error = "none"

DepositCost == GAS_CODEDEPOSIT * outcome.output

\* the accounts after the init code ran and was committed
AfterInitCode ==
    LET a == msg.storage_address
        paid == [debited EXCEPT !.balance[msg.sender] = @ - msg.value,
                                !.balance[a] = @ + msg.value,
                                !.exists = @ \cup {a}]
    IN  CASE outcome.effect = "sstore" ->
                [paid EXCEPT !.storage[a] = ToggledStorage(@)]
          [] outcome.effect = "selfdestruct" ->
                [paid EXCEPT !.balance[Beneficiary] = @ + paid.balance[a],
                             !.balance[a] = 0,
                             !.exists = @ \cup {Beneficiary}]
          [] OTHER -> paid

C15_FrontierSilentEmptyCode ==
    (IsFrontier(ctx) /\ InitCodeSucceeded /\ outcome.output # NoCode
        /\ outcome.gas_left < DepositCost) =>
        /\ ~is_error(built)
        /\ built.output = NoCode
        /\ executed.code[msg.storage_address] = NoCode
        /\ built.gas_remaining = outcome.gas_left
        /\ executed = AfterInitCode

\* a creation with value whose init code wrote storage and left no gas
C15_Witness ==
    /\ IsFrontier(ctx)
    /\ InitCodeSucceeded
    /\ Finalized
    /\ outcome.output = 100
    /\ outcome.gas_left = 0
    /\ outcome.effect = "sstore"
    /\ tx.value = 1

-----------------------------------------------------------------------------
(* C16: from Spurious Dragon on, when the deposit cannot be paid or the code  *)
(* is not valid after the init code succeeded, the computation has an error   *)
(* and the accounts are those at entry of apply_create_message: nonce of the  *)
(* new contract, value transfer and init code effects are undone.  When the   *)
(* creation succeeds the nonce of the new contract is one higher than before. *)
C16_CreateRevertsOnDepositFailure ==
    (~IsFrontier(ctx) /\ Built /\ msg.is_create /\ ~Collides) =>
        /\ (outcome.error = "none" /\ outcome.output # NoCode
               /\ (outcome.gas_left < DepositCost
                      \/ outcome.output > EIP170_CODE_SIZE_LIMIT)) =>
              /\ is_error(built)
              /\ executed = debited
              /\ pc = "finalize_computation" => Len(state.journal) = snap
        /\ ~is_error(built) =>
              /\ executed.nonce[msg.storage_address]
                    = debited.nonce[msg.storage_address] + 1
              /\ executed.code[msg.storage_address] = outcome.output
              /\ built.gas_remaining = outcome.gas_left - DepositCost

\* a creation with value whose init code wrote storage and left no gas
C16_Witness ==
    /\ ~IsFrontier(ctx)
    /\ InitCodeSucceeded
    /\ pc = "finalize_computation"
    /\ outcome.output = 100
    /\ outcome.gas_left = 0
    /\ outcome.effect = "sstore"
    /\ tx.value = 1
    /\ is_error(built)

-----------------------------------------------------------------------------
(* C17: from Spurious Dragon on apply_create_message stores no code longer    *)
(* than 24576 bytes: such a create ends in OutOfGas and is reverted; code of  *)
(* exactly 24576 bytes is stored when the gas left pays the deposit.          *)
C17_CodeSizeLimit ==
    (~IsFrontier(ctx) /\ pc = "returned" /\ msg.is_create) =>
        /\ \A a \in Addr : state.acct.code[a] <= 24576
        /\ (outcome.error = "none" /\ outcome.output > 24576) =>
              /\ comp.error = "OutOfGas"
              /\ state.acct = pre
        /\ (outcome.error = "none" /\ outcome.output = 24576
               /\ outcome.gas_left >= 24576 * GAS_CODEDEPOSIT) =>
              /\ ~is_error(comp)
              /\ state.acct.code[msg.storage_address] = 24576
              /\ comp.gas_remaining = outcome.gas_left - 24576 * GAS_CODEDEPOSIT

\* code of exactly the limit is stored
C17_Witness ==
    /\ ~IsFrontier(ctx)
    /\ pc = "returned"
    /\ msg.is_create
    /\ outcome.output = 24576
    /\ state.acct.code[msg.storage_address] = 24576
    /\ outcome.effect = "sstore"

----
\* C18: on Spurious Dragon and later, after finalize_computation no account
\* touched during the transaction both exists and is empty; the sweep acts on
\* the state the sender refund, the coinbase credit and the selfdestruct
\* deletions have produced, and it deletes nothing but touched accounts that
\* exist and are empty in that state.
BeforeSweep == frontier_finalize_computation([state EXCEPT !.acct = executed], ctx, tx, built)

Touched == collect_touched_accounts(ctx, built)

Swept == {a \in Addr : account_exists(BeforeSweep, a) /\ ~account_exists(state, a)}

C18_TouchedEmptyAccountsDeleted ==
    (~IsFrontier(ctx) /\ Finalized) =>
        /\ \A a \in Touched : ~(account_exists(state, a) /\ account_is_empty(state, a))
        /\ \A a \in Swept : a \in Touched /\ account_is_empty(BeforeSweep, a)
        /\ state.acct = delete_accounts(BeforeSweep, Swept).acct

\* a transaction without a fee, not sent to the coinbase, touches the coinbase,
\* which does not exist before it, and the sweep deletes it
C18_Witness ==
    /\ ~IsFrontier(ctx)
    /\ Finalized
    /\ ~is_error(built)
    /\ ctx.coinbase \notin pre.exists
    /\ ctx.coinbase # tx.to
    /\ ctx.coinbase \in Swept

----
\* C19: every transaction and the finalization of the block touch the coinbase
\* whatever the amount: finalize_computation credits it a fee of zero, so that
\* it exists afterwards on Frontier and falls under the sweep of the touched
\* accounts on the later forks, where it is gone when it is empty; and
\* _assign_block_rewards credits it a block reward of zero, so that it exists
\* after the rewards of every block but the genesis block.
Rewarded == pc = "persist" /\ block.number > 0

----
\* C20: in_costless_state reverts the yielded state when its scope is left,
\* whether the body has finished or has raised, and the base fee of the yielded
\* state is 0 whenever the header has one.
C20_CostlessStateReverts ==
    /\ pc \in {"scope_exited", "scope_raised"} =>
          /\ state.acct = pre
          /\ Len(state.journal) = snap - 1
    /\ pc \in {"body", "scope_exited", "scope_raised"} => ctx.base_fee_per_gas = 0

----
\* C21: execute_bytecode commits nothing: after it has returned, the balances,
\* nonces, code and storage of the state of the VM are those before the call,
\* whatever the executed code wrote.
C21_ExecuteBytecodeReadOnly == pc = "bytecode_executed" => state.acct = pre

----
\* C22: apply_all_withdrawals validates and applies the withdrawals in list
\* order: when all are valid every address holds what it held plus the
\* amounts withdrawn to it, and only then each address of the list that is
\* empty is deleted, so that an address of the list exists afterwards exactly
\* when it is not empty (a zero amount followed by a nonzero one keeps it) and
\* no other account changes; when a withdrawal is not valid the ones before it
\* are applied, it and the ones after it are not, and nothing is deleted.
RECURSIVE Withdrawn(_, _, _)
Withdrawn(ws, n, a) ==
    IF n = 0 THEN 0
    ELSE Withdrawn(ws, n - 1, a)
         + (IF ws[n].address = a THEN ws[n].amount * GWEI_TO_WEI ELSE 0)

WithdrawnTo(ws, n) == {ws[i].address : i \in 1..n}

ValidPrefix(ws) ==
    IF \A i \in 1..Len(ws) : ws[i].valid THEN Len(ws)
    ELSE (CHOOSE i \in 1..Len(ws) : ~ws[i].valid /\ \A j \in 1..(i - 1) : ws[j].valid) - 1

C22_WithdrawalsThenDeletion ==
    LET ws == block.withdrawals
        n == ValidPrefix(ws)
    IN  /\ pc \in {"withdrawals_applied", "invalid"} =>
              /\ (pc = "withdrawals_applied") = (n = Len(ws))
              /\ \A a \in Addr :
                    /\ state.acct.balance[a] = pre.balance[a] + Withdrawn(ws, n, a)
                    /\ state.acct.nonce[a] = pre.nonce[a]
                    /\ state.acct.code[a] = pre.code[a]
                    /\ a \notin WithdrawnTo(ws, n)
                          => (a \in state.acct.exists) = (a \in pre.exists)
        /\ pc = "withdrawals_applied" =>
              \A a \in WithdrawnTo(ws, n) :
                    (a \in state.acct.exists) = ~account_is_empty(state, a)
        /\ pc = "invalid" =>
              \A a \in WithdrawnTo(ws, n) : a \in state.acct.exists

\* bob, who exists and is empty, is withdrawn a zero amount and then a nonzero
\* one and is kept
C22_Witness ==
    /\ pc = "withdrawals_applied"
    /\ Len(block.withdrawals) = 2
    /\ block.withdrawals[1].address = "bob"
    /\ block.withdrawals[1].amount = 0
    /\ block.withdrawals[2].address = "bob"
    /\ block.withdrawals[2].amount = 1
    /\ "bob" \in pre.exists
    /\ "bob" \in state.acct.exists

----
\* C23: import_block takes its steps in this order: the header starts with no
\* gas used and the state is built anew on the state root of the header, the
\* transactions are applied, the withdrawals are applied, the roots of the
\* transactions, receipts and withdrawals are set, the block rewards are
\* assigned, the state is persisted, state_root is set, the block is
\* validated.  No reward is credited before the transactions and the
\* withdrawals of the block are applied, and the block is returned only when
\* validate_block has passed.
PhaseOrder ==
    <<"rebuild_state", "apply_all_transactions", "apply_all_withdrawals",
      "set_roots", "finalize_block", "assign_block_rewards", "persist",
      "state_root", "validate_block">>

Rank(p) == CHOOSE i \in 1..Len(PhaseOrder) : PhaseOrder[i] = p

Done(p) == \E i \in 1..Len(phases) : phases[i] = p

C23_ImportBlockOrder ==
    /\ \A i \in 1..(Len(phases) - 1) : Rank(phases[i]) < Rank(phases[i + 1])
    /\ (pc = "loop" /\ txIndex = 0) =>
          /\ phases = <<"rebuild_state">>
          /\ header.gas_used = 0
          /\ state = [acct |-> chaindb.accounts, journal |-> <<>>, locked |-> 0,
                      faults |-> {}]
    /\ pc \notin {"import_block", "invalid"} => Done("rebuild_state")
    /\ Done("assign_block_rewards") =>
          /\ Done("apply_all_transactions")
          /\ block.withdrawals # <<>> => Done("apply_all_withdrawals")
          /\ Done("set_roots")
    /\ ~Done("assign_block_rewards") /\ Done("rebuild_state") =>
          TotalBalance(state.acct) <=
              TotalBalance(chaindb.accounts) + GweiOf(block.withdrawals) * GWEI_TO_WEI
    /\ pc = "imported" =>
          /\ \A p \in {"rebuild_state", "apply_all_transactions", "set_roots",
                       "finalize_block", "persist", "state_root",
                       "validate_block"} : Done(p)
          /\ Done("assign_block_rewards") = (block.number > 0)
          /\ Done("apply_all_withdrawals") = (block.withdrawals # <<>>)
          /\ phases[Len(phases)] = "validate_block"
          /\ block.header.extra_data <= extra_data_max_bytes
          /\ block.number > 0 => block.header.timestamp > chaindb.parent.timestamp

\* a block after the genesis block, with a transaction and a withdrawal, is
\* imported
C23_Witness ==
    /\ pc = "imported"
    /\ block.number > 0
    /\ Len(receipts) > 0
    /\ block.withdrawals # <<>>

----
----
\* C25: for a block after the genesis block, _assign_block_rewards adds
\* block_reward + len(uncles) x nephew_reward to the balance of the coinbase
\* of the block and the reward of each uncle to the balance of the coinbase of
\* that uncle, amounts adding up when addresses coincide, so the sum of all
\* balances grows by exactly that total; for block 0 finalize_block credits
\* nothing.
UnclesOf(a) == {i \in 1..Len(block.uncles) : block.uncles[i].coinbase = a}

UncleRewards ==
    [i \in 1..Len(block.uncles) |-> get_uncle_reward(block, block.uncles[i])]

CoinbaseReward == block.block_reward + Len(block.uncles) * (block.block_reward \div 32)

C25_BlockRewards ==
    pc = "persist" =>
        IF block.number > 0
        THEN /\ \A a \in Addr :
                   state.acct.balance[a] =
                       pre.balance[a]
                       + (IF a = block.coinbase THEN CoinbaseReward ELSE 0)
                       + SumOver(UncleRewards, UnclesOf(a))
             /\ TotalBalance(state.acct) =
                   TotalBalance(pre) + CoinbaseReward
                   + SumOver(UncleRewards, 1..Len(block.uncles))
        ELSE state.acct = pre

\* the rewards of a block with two uncles are credited, one uncle having the
\* coinbase of the block
C25_Witness ==
    /\ pc = "persist"
    /\ block.number > 0
    /\ Len(block.uncles) = 2
    /\ UnclesOf(block.coinbase) # {}
    /\ state.acct.balance[block.coinbase] = pre.balance[block.coinbase] + 34 + 8

----
\* C26: when the rewards raise EVMMissingData in finalize_block, the state is
\* back at the snapshot taken before the rewards, the exception leaves
\* finalize_block and nothing is persisted; otherwise the snapshot is
\* committed, the state is persisted and the state_root of the returned block
\* is the root of the state read after persist.
C26_FinalizeBlock ==
    /\ pc = "rewards_raised" =>
          /\ state.acct = pre
          /\ Len(state.journal) = snap - 1
          /\ ~Done("persist")
          /\ ~Done("state_root")
          /\ ~Done("validate_block")
          /\ chaindb = InitChaindb
          /\ ~ENABLED Next
    /\ Done("persist") =>
          /\ block.number > 0 =>
                (Done("assign_block_rewards") /\ Len(state.journal) = snap - 1)
          /\ state.faults = {}
          /\ chaindb.accounts = state.acct
          /\ state_root_of(state.acct) \in chaindb.roots
          /\ block.header.state_root = state_root_of(state.acct)

\* the rewards of a block that pays a reward raise EVMMissingData after the
\* transactions of the block changed the state
C26_Witness ==
    /\ pc = "rewards_raised"
    /\ block.block_reward > 0
    /\ Len(receipts) > 0
    /\ state.acct # chaindb.accounts

----
\* C27: validate_block accepts a block only if the roots of its header are the
\* computed ones: the transaction root is the trie root of the transactions,
\* the state root is the root computed from the state of the VM, uncles_hash
\* is keccak(rlp(uncles)), and the block has at most 2 uncles.
C27_ValidateBlockChecksRoots ==
    pc = "imported" =>
        /\ block.header.transaction_root = make_trie_root(block.transactions)
        /\ block.header.state_root = make_state_root(state)
        /\ block.header.uncles_hash = keccak_rlp(block.uncles)
        /\ Len(block.uncles) <= 2

\* C27, without the state root: what validate_block does ensure
C27_AcceptedBlockButStateRoot ==
    pc = "imported" =>
        /\ block.header.transaction_root = make_trie_root(block.transactions)
        /\ (block.header.state_root = make_state_root(state)
            \/ block.header.state_root \in chaindb.roots)
        /\ block.header.uncles_hash = keccak_rlp(block.uncles)
        /\ Len(block.uncles) <= 2

----
\* C28: validate_header raises ValidationError exactly when the parent header
\* is missing, extra_data is longer than 32 bytes, the gas limit fails
\* validate_gas against the parent, block_number is not the parent's + 1, or
\* the timestamp is not strictly greater than the parent's; any other header
\* is accepted.
HeaderFaults ==
    {f \in {"no_parent", "extra_data", "gas", "number", "timestamp"} :
        \/ f = "no_parent" /\ chaindb.parent.is_none
        \/ f = "extra_data" /\ block.header.extra_data > 32
        \/ f = "gas" /\ ~validate_gas(block.header, chaindb.parent)
        \/ f = "number" /\ block.header.block_number # chaindb.parent.block_number + 1
        \/ f = "timestamp" /\ ~(block.header.timestamp > chaindb.parent.timestamp)}

C28_ValidateHeader ==
    /\ pc = "header_valid" => HeaderFaults = {}
    /\ pc = "invalid" => HeaderFaults # {}

\* a header at the limits is accepted: extra_data of 32 bytes, a gas limit
\* that differs from the parent's by parent.gas_limit / 1024, a timestamp one
\* second after the parent's
C28_Witness ==
    /\ pc = "header_valid"
    /\ block.header.extra_data = 32
    /\ block.header.gas_limit = chaindb.parent.gas_limit + 118
    /\ block.header.timestamp = chaindb.parent.timestamp + 1

----
\* C29: validate_uncle accepts an uncle only if its number lies within
\* [block.number - 7, block.number - 1], is its parent's number + 1, its
\* timestamp is newer than its parent's and its gas_used is at most its
\* gas_limit.
C29_ValidateUncle ==
    pc = "uncle_valid" =>
        /\ block.uncles[1].block_number \in (block.number - 7)..(block.number - 1)
        /\ block.uncles[1].block_number = chaindb.parent.block_number + 1
        /\ block.uncles[1].timestamp > chaindb.parent.timestamp
        /\ block.uncles[1].gas_used <= block.uncles[1].gas_limit

\* C29, with the one bound validate_uncle has on the number of the uncle
C29_AcceptedUncleBelowBlock ==
    pc = "uncle_valid" =>
        /\ block.uncles[1].block_number < block.number
        /\ block.uncles[1].block_number = chaindb.parent.block_number + 1
        /\ block.uncles[1].timestamp > chaindb.parent.timestamp
        /\ block.uncles[1].gas_used <= block.uncles[1].gas_limit

----
\* C30: validate_receipt raises ValidationError exactly when the address of
\* some log or some topic of some log of the receipt is absent from the bloom
\* filter of the receipt; so every receipt apply_transaction returns has every
\* log address and every topic in its bloom filter.
AbsentAddresses(r) ==
    {a \in {log.address : log \in r.logs} : Bytes20(a) \notin r.bloom_filter}

AbsentTopics(r) ==
    {t \in UNION {{log.topics[i] : i \in 1..Len(log.topics)} : log \in r.logs} :
        uint32_serialize(t) \notin r.bloom_filter}

C30_ValidateReceipt ==
    /\ pc = "rejected_receipt" =>
          (AbsentAddresses(receipt) # {} \/ AbsentTopics(receipt) # {})
    /\ pc = "add_receipt" =>
          (AbsentAddresses(receipt) = {} /\ AbsentTopics(receipt) = {})

\* a receipt is returned whose logs carry topics and whose bloom filter also
\* holds an entry of no log
C30_Witness ==
    /\ pc = "add_receipt"
    /\ \E log \in receipt.logs : Len(log.topics) = 2
    /\ receipt.bloom_filter # UNION {bloomables(log) : log \in receipt.logs}

----
\* C31: get_prev_hashes always terminates and yields at most 256 hashes: first
\* the hash of the parent block, then the hashes of its ancestors in order; it
\* stops early when the parent header of an ancestor is not found, and yields
\* nothing when the parent hash is the parent hash of the genesis block.
ParentHashOf(h) ==
    (CHOOSE hd \in frame.chaindb : hd.hash = h).parent_hash

PrevHashesInOrder ==
    /\ Len(frame.yielded) <= 256
    /\ \A k \in 1..Len(frame.yielded) :
          /\ \E hd \in frame.chaindb : hd.hash = frame.yielded[k]
          /\ frame.yielded[k] = IF k = 1 THEN frame.last_block_hash
                                ELSE ParentHashOf(frame.yielded[k - 1])
    /\ frame.last_block_hash = 0 => frame.yielded = <<>>
    /\ (pc = "prev_hashes_done" /\ frame.last_block_hash # 0) =>
          /\ frame.yielded # <<>>
          /\ Len(frame.yielded) < 256 =>
                ~\E hd \in frame.chaindb :
                     hd.hash = ParentHashOf(frame.yielded[Len(frame.yielded)])
    /\ pc = "header_not_found" =>
          /\ frame.yielded = <<>>
          /\ ~\E hd \in frame.chaindb : hd.hash = frame.last_block_hash

C31_PrevHashes ==
    /\ [](frame.method = "get_prev_hashes" => PrevHashesInOrder)
    /\ <>(pc \in {"prev_hashes_done", "header_not_found"})

\* 256 hashes were yielded although the chain goes on below them
C31_Witness ==
    /\ pc = "prev_hashes_done"
    /\ Len(frame.yielded) = 256
    /\ frame.yielded[1] = 260
    /\ \E hd \in frame.chaindb : hd.hash = ParentHashOf(frame.yielded[256])

----
\* C32: JUMP, and JUMPI with a nonzero condition, end without error exactly
\* when the byte at the destination is JUMPDEST and the destination is not
\* inside the immediate data of a PUSH, and then the program counter is the
\* destination; when the byte is not JUMPDEST they raise
\* InvalidJumpDestination, when it is a JUMPDEST byte inside PUSH data they
\* raise InvalidInstruction.  JUMPI with a zero condition leaves the program
\* counter as it is and tests nothing.
ByteAt(code, position) == IF position < Len(code) THEN code[position + 1] ELSE 0

\* position lies in the immediate data of a PUSH that is itself an opcode
InPushData(code, position) ==
    \E q \in 0..(position - 1) :
        /\ q \in opcode_positions(code, 0)
        /\ code[q + 1] \in {96, 97}
        /\ position <= q + (code[q + 1] - 95)

Jumps == frame.method = "jump" \/ frame.operands.check_value # 0

C32_JumpDestination ==
    (pc = "opcode_done" /\ frame.method \in {"jump", "jumpi"}) =>
        LET dest == frame.operands.jump_dest
        IN  IF Jumps
            THEN /\ frame.error = "none" <=>
                        (ByteAt(frame.code, dest) = 91 /\ ~InPushData(frame.code, dest))
                 /\ frame.error = "InvalidJumpDestination" <=>
                        ByteAt(frame.code, dest) # 91
                 /\ frame.error = "InvalidInstruction" <=>
                        (ByteAt(frame.code, dest) = 91 /\ InPushData(frame.code, dest))
                 /\ frame.error = "none" => frame.program_counter = dest
                 /\ frame.stack = <<7>>
            ELSE /\ frame.error = "none"
                 /\ frame.program_counter = frame.from
                 /\ frame.stack = <<7>>

\* a JUMPI with a nonzero condition whose destination is a JUMPDEST byte in
\* the data of a PUSH raised InvalidInstruction
C32_Witness ==
    /\ pc = "opcode_done"
    /\ frame.method = "jumpi"
    /\ frame.operands.check_value = 2
    /\ frame.error = "InvalidInstruction"
    /\ ByteAt(frame.code, frame.operands.jump_dest) = 91

----
\* C33: an opcode built by as_opcode pays its base gas cost before the body of
\* its handler runs: when the gas that remains is less than the base cost the
\* call raises OutOfGas and the logic function is not invoked, so stack,
\* memory and state are as before; otherwise the logic function runs on the
\* computation whose gas is already reduced by the base cost.
C33_GasBeforeHandler ==
    (pc = "opcode_done" /\ frame.method = "opcode") =>
        IF frame.before.gas_remaining < frame.gas_cost
        THEN /\ frame.error = "OutOfGas"
             /\ frame.invoked = <<"consume_gas">>
             /\ frame.stack = frame.before.stack
             /\ frame.program_counter = frame.before.program_counter
             /\ frame.gas_remaining = frame.before.gas_remaining
             /\ state.acct = InitAccounts
        ELSE /\ frame.invoked = <<"consume_gas", "logic_fn">>
             /\ frame.error # "OutOfGas"
             /\ frame.gas_remaining = frame.before.gas_remaining - frame.gas_cost
             /\ frame.mnemonic = "GAS" =>
                   frame.stack =
                       Append(frame.before.stack,
                              frame.before.gas_remaining - frame.gas_cost)

\* GAS with a base cost of 8 is called with 7 gas left
C33_Witness ==
    /\ pc = "opcode_done"
    /\ frame.method = "opcode"
    /\ frame.mnemonic = "GAS"
    /\ frame.gas_cost = 8
    /\ frame.before.gas_remaining = 7
    /\ frame.error = "OutOfGas"

----
----
\* C35: a message deeper than 1024 never runs: apply_message raises
\* StackDepthLimit before any balance transfer, account touch or code
\* execution, so balances, storage and code are as they were, and the whole
\* of the accounts when apply_message was called directly (Spurious Dragon
\* apply_create_message has by then set the nonce of the new account, outside
\* apply_message); a message at depth exactly 1024
\* is not refused for its depth, and runs when the sender can pay its value.
C35_StackDepthLimit ==
    pc \in {"returned", "vm_error"} =>
        /\ msg.depth > 1024 =>
              /\ frame.raised = "StackDepthLimit"
              /\ pc = "vm_error"
              /\ state.acct.balance = pre.balance
              /\ state.acct.storage = pre.storage
              /\ state.acct.code = pre.code
              /\ frame.method = "apply_message" => state.acct = pre
        /\ msg.depth <= 1024 =>
              /\ frame.raised # "StackDepthLimit"
              /\ msg.value <= pre.balance[msg.sender] =>
                    /\ pc = "returned"
                    /\ comp.msg = msg
                    /\ outcome.error # "none" => comp.error = outcome.error

\* a message at depth 1024 that carries value has run and changed the state
C35_Witness ==
    /\ pc = "returned"
    /\ frame.method = "apply_message"
    /\ msg.depth = 1024
    /\ msg.value = 1
    /\ outcome.effect = "sstore"
    /\ ~is_error(comp)
    /\ state.acct # pre

\* a message at depth 1025 was refused although its sender could not have paid
C35_WitnessRefused ==
    /\ pc = "vm_error"
    /\ msg.depth = 1025
    /\ msg.value = 200001
    /\ frame.raised = "StackDepthLimit"

----
\* C36: apply_all_transactions folds the header through the transactions.
\* The header a transaction is validated and applied against is the base
\* header when no transaction was applied and the header with the receipt of
\* the transaction before it otherwise; a transaction past the validation fits
\* in that header; there is one receipt and one computation for every
\* transaction applied, in the order of the transactions, the receipt holding
\* the gas used up to and including its transaction; and the gas used in the
\* header never exceeds the gas limit.
ReturnedInOrder(i) ==
    /\ frame.computations[i].msg.sender = frame.transactions[i].sender
    /\ frame.computations[i].msg.to = frame.transactions[i].to
    /\ frame.computations[i].msg.value = frame.transactions[i].value
    /\ receipts[i].status = ~is_error(frame.computations[i])
    /\ receipts[i].logs = get_log_entries(frame.computations[i])
    /\ receipts[i].gas_used >
          (IF i = 1 THEN frame.base_header.gas_used ELSE receipts[i - 1].gas_used)
    /\ receipts[i].gas_used <=
          (IF i = 1 THEN frame.base_header.gas_used ELSE receipts[i - 1].gas_used)
          + frame.transactions[i].gas
    /\ hooks[i] = i - 1

C36_HeaderFolded ==
    /\ header = (IF txIndex = 0 THEN frame.base_header
                 ELSE add_receipt_to_header(frame.base_header, receipts[txIndex]))
    /\ pc \in {"lock_changes", "validate_transaction", "build_evm_message",
               "build_computation", "finalize_computation", "make_receipt",
               "validate_receipt", "add_receipt"} =>
          header.gas_used + tx.gas <= header.gas_limit
    /\ Len(receipts) = txIndex
    /\ Len(frame.computations) = txIndex
    /\ Len(frame.transactions) = txIndex
    /\ \A i \in 1..txIndex : ReturnedInOrder(i)
    /\ header.gas_used <= header.gas_limit

\* two transactions were applied and returned: the second one, a creation,
\* went through with the gas the failed first one left in the block
C36_Witness ==
    /\ pc = "done"
    /\ txIndex = 2
    /\ is_error(frame.computations[1])
    /\ ~frame.computations[1].msg.is_create
    /\ frame.computations[2].msg.is_create
    /\ receipts[1].gas_used = 100000
    /\ receipts[2].gas_used > 100000
    /\ header.gas_used = receipts[2].gas_used

----
\* C37: every snapshot the pipeline takes is resolved exactly once, by a
\* commit or a revert, before control leaves the operation that took it.  For
\* apply_message and apply_create_message called with the snapshot of the
\* transaction open: when the call is left, by a return or by a raise
\* (StackDepthLimit and InsufficientFunds included), the snapshot of the
\* transaction is the only one open, and no commit or revert named a snapshot
\* that was closed or was not the most recent one.
C37_SnapshotsResolved ==
    pc \in {"returned", "vm_error"} =>
        /\ Len(state.journal) = 1
        /\ state.faults = {}

\* apply_message was left by InsufficientFunds with its snapshot open
C37_SnapshotLeftOpen ==
    /\ pc = "vm_error"
    /\ frame.method = "apply_message"
    /\ frame.raised = "InsufficientFunds"
    /\ Len(state.journal) = 2
    /\ state.acct = pre

----
\* C38: apply_all_withdrawals is not atomic.  When validate() of the withdrawal
\* at index k raises, the withdrawals before it stay credited, no later
\* withdrawal is applied, and the deletion pass does not run: every address
\* credited before index k exists afterwards, empty or not, and every other
\* account is as it was.
C38_WithdrawalsNotAtomic ==
    LET ws == block.withdrawals
        k == ValidPrefix(ws)
    IN  pc = "invalid" =>
            /\ k < Len(ws)
            /\ ~ws[k + 1].valid
            /\ \A a \in Addr :
                  /\ state.acct.balance[a] = pre.balance[a] + Withdrawn(ws, k, a)
                  /\ a \in WithdrawnTo(ws, k) => a \in state.acct.exists
                  /\ a \notin WithdrawnTo(ws, k) =>
                        (a \in state.acct.exists) = (a \in pre.exists)
            /\ state.acct.nonce = pre.nonce
            /\ state.acct.code = pre.code
            /\ state.acct.storage = pre.storage

\* the second withdrawal, of one gwei, was invalid and was not applied: the
\* first, of nothing to an account that did not exist, left the account
\* behind, empty
C38_Witness ==
    /\ pc = "invalid"
    /\ Len(block.withdrawals) >= 2
    /\ block.withdrawals[1] = [address |-> "bob", amount |-> 0, valid |-> TRUE]
    /\ ~block.withdrawals[2].valid
    /\ block.withdrawals[2].amount = 1
    /\ "bob" \notin pre.exists
    /\ "bob" \in state.acct.exists
    /\ account_is_empty(state, "bob")
    /\ state.acct.balance = pre.balance

\* a withdrawal was credited before the one that was found invalid
C38_WitnessCredited ==
    /\ pc = "invalid"
    /\ Len(block.withdrawals) = 2
    /\ block.withdrawals[1] = [address |-> "ctr", amount |-> 1, valid |-> TRUE]
    /\ ~block.withdrawals[2].valid
    /\ state.acct.balance["ctr"] = pre.balance["ctr"] + 1000000000

----
\* C39: finalize_computation deletes the accounts queued for deletion after it
\* has credited the refund to the sender and the fee to the coinbase: a sender
\* or a coinbase that is queued for deletion does not exist after the
\* finalization, and nothing is left of what was credited to it.
C39_DeletionAfterCredit ==
    pc = "make_receipt" =>
        \A a \in {tx.sender, ctx.coinbase} :
            a \in {d[1] : d \in get_accounts_for_deletion(built)} =>
                /\ ~account_exists(state, a)
                /\ get_balance(state, a) = 0

\* the contract is the coinbase and destroyed itself: a fee was paid to it and
\* is gone with the account
C39_Witness ==
    /\ pc = "make_receipt"
    /\ ctx.coinbase = "ctr"
    /\ <<"ctr", "bob">> \in get_accounts_for_deletion(built)
    /\ fin.transaction_fee > 0
    /\ ~account_exists(state, "ctr")
    /\ get_balance(state, "ctr") = 0

\* the sender is queued for deletion: a refund was paid to it and is gone
C39_WitnessSender ==
    /\ pc = "make_receipt"
    /\ <<"alice", "bob">> \in get_accounts_for_deletion(built)
    /\ fin.gas_refund_amount > 0
    /\ ~account_exists(state, "alice")

----
\* C40: no balance becomes negative along the transaction pipeline.  A
\* transaction that passed validate_frontier_transaction leaves its sender,
\* after the gas is bought, a balance of at least its value, so the top-level
\* apply_message does not raise InsufficientFunds; a value transfer of
\* apply_message moves exactly message.value from the sender to
\* storage_address and leaves the sum of the balances as it was; with
\* insufficient funds apply_message raises and no balance changes.
RECURSIVE SumOfBalances(_, _)
SumOfBalances(balance, accounts) ==
    IF accounts = {} THEN 0
    ELSE LET a == CHOOSE x \in accounts : TRUE
         IN  balance[a] + SumOfBalances(balance, accounts \ {a})

\* the balances after are the balances before but for value moved from the
\* sender to storage_address of message m
ValueMoved(before, after, m) ==
    after = [a \in Addr |->
                before[a] - (IF a = m.sender THEN m.value ELSE 0)
                          + (IF a = m.storage_address THEN m.value ELSE 0)]

C40_NoNegativeBalance ==
    /\ \A a \in Addr : state.acct.balance[a] >= 0
    /\ frame.method = "apply_all_transactions" =>
          /\ pc # "vm_error"
          /\ pc = "build_computation" =>
                /\ msg.value = tx.value
                /\ get_balance(state, tx.sender) >= tx.value
          /\ pc = "finalize_computation" =>
                /\ SumOfBalances(executed.balance, Addr)
                      = SumOfBalances(debited.balance, Addr)
                /\ is_error(built) => executed.balance = debited.balance
                /\ ~is_error(built) /\ outcome.effect # "selfdestruct" =>
                      ValueMoved(debited.balance, executed.balance, msg)
    /\ frame.method \in {"apply_message", "apply_create_message"} =>
          /\ (frame.raised = "InsufficientFunds")
                = (pre.balance[msg.sender] < msg.value)
          /\ frame.raised # "none" => state.acct.balance = pre.balance
          /\ frame.raised = "none" =>
                /\ SumOfBalances(state.acct.balance, Addr)
                      = SumOfBalances(pre.balance, Addr)
                /\ is_error(comp) => state.acct.balance = pre.balance
                /\ ~is_error(comp) /\ outcome.effect # "selfdestruct"
                      /\ outcome.calls = <<>> =>
                      ValueMoved(pre.balance, state.acct.balance, msg)

\* the second transaction of a block carried a value and paid for its gas:
\* after the gas was bought its sender had the value left, and the value went
\* to the account addressed
C40_Witness ==
    /\ frame.method = "apply_all_transactions"
    /\ pc = "finalize_computation"
    /\ txIndex = 1
    /\ tx.value = 1
    /\ tx.gas_price = 2
    /\ debited.balance[tx.sender] < pre.balance[tx.sender]
    /\ ~is_error(built)
    /\ executed.balance[tx.sender] = debited.balance[tx.sender] - 1
    /\ executed.balance[msg.storage_address] = debited.balance[msg.storage_address] + 1

\* apply_message raised InsufficientFunds and changed no balance
C40_WitnessInsufficientFunds ==
    /\ frame.method = "apply_message"
    /\ pc = "vm_error"
    /\ frame.raised = "InsufficientFunds"
    /\ state.acct.balance = pre.balance

====
